---- MODULE Spec2Model ----
(***************************************************************************)
(* gloria: the request pipeline of Client[T].                               *)
(*                                                                         *)
(* A client is built (constructor, options, setters, hook registration),   *)
(* sent once (Send: pre-hooks, createRequest, transport round trip,        *)
(* post-hooks, body read, decode, business classification, deferred body   *)
(* close) and then inspected (Unwrap).                                     *)
(*                                                                         *)
(* The result type T of the modelled client is the struct                  *)
(*     struct { Id int `json:"id"`; Msg string `json:"msg"` }              *)
(* Library code the repository calls is modelled by its contract:          *)
(* encoding/json (Marshal, Unmarshal), net/http (NewRequest, Client.Do,    *)
(* Transport.RoundTrip, Body.Close) and log (a nil *log.Logger panics).    *)
(***************************************************************************)
EXTENDS Integers, Sequences, FiniteSets, TLC

VARIABLES
    pc,             \* position of the caller: "build", Send's phases, "returned", "panicked", "fatal"
    idx,            \* loop index of Send's range loops over the hook slices
    exit,           \* how Send leaves once its deferred close has run: "return" or "panic"
    Config,         \* c.Config
    Meta,           \* c.Meta
    urls,           \* c.urls
    payload,        \* c.payload
    beforeRequest,  \* c.beforeRequest
    afterResponse,  \* c.afterResponse
    Exception,      \* c.Exception
    Result,         \* c.Result
    Context,        \* c.Context
    resp,           \* Send's local resp, the *http.Response of the round trip
    log,            \* history: the steps Send has executed, in order
    excSets,        \* history: how often Send has assigned c.Exception
    unwrap,         \* outcome of Unwrap
    headers,        \* c.headers
    params,         \* c.params
    calls,          \* history: the setter calls made on the client, in order
    prev,           \* history: the client's request description before the last call
    cb,             \* outcome of Then and of Catch
    seg,            \* outcome of a call of urlSegments: its argument and the rawUrl
    authorization   \* c.authorization

vars == <<pc, idx, exit, Config, Meta, urls, payload, beforeRequest, afterResponse,
          Exception, Result, Context, resp, log, excSets, unwrap,
          headers, params, calls, prev, cb, seg, authorization>>

---------------------------------------------------------------------------
\* Bounds of the model.

\* Most hooks registered in one hook slice.
MaxHooks == 2

\* The number of setter calls made on one client.
MaxCalls == 2

---------------------------------------------------------------------------
\* Program constants.

StatusOK == 200

OkCode == 0

\* time.Now().Unix() at the moment an Exception is recorded: some non-zero second.
UnixNow == 1

\* A nil error.
NoErr == "<nil>"

QueryMethods == <<"GET", "POST", "PUT", "DELETE", "PATCH", "HEAD", "OPTIONS">>

ProtocolHttp == "http"

RootURL == "/"

Placeholder == "-"

---------------------------------------------------------------------------
\* Values.

EmptyException ==
    [CodeLocation |-> "", PanicError |-> NoErr, FailureReason |-> "", OccurrenceTime |-> 0]

\* The zero value of T.
ZeroData == [id |-> 0, msg |-> ""]

\* &RESTFulResp[T]{}
ZeroResult == [Code |-> 0, Msg |-> "", Data |-> ZeroData]

\* c.Result after JSON null was decoded into &c.Result: a nil pointer.
NilResult == [nil |-> TRUE]

\* &http.Request{}: no URL.
ZeroRequest == [kind |-> "zero"]

\* A nil *http.Request.
NilRequest == [kind |-> "nil"]

\* &http.Client{}
ZeroHttpClient == [configured |-> FALSE, logged |-> FALSE]

\* &Response{}
ZeroResponse == [R |-> FALSE, Status |-> 0, bs |-> "", text |-> "", length |-> 0]

\* No response yet.
NoResp == [none |-> TRUE]

\* urlSegments has not been called.
NoSeg == [none |-> TRUE]

---------------------------------------------------------------------------
\* Inputs.

\* Arguments of SetMethod.
MethodInputs == {"get", "HEAD", "trace"}

\* Arguments of SetEndpoint; the last one holds an ASCII control character,
\* which url.Parse (and so http.NewRequest) rejects.
CtlEndpoint == "/a\tb"

EndpointInputs == {"/get", CtlEndpoint}

\* Arguments of SetPayload: nil, H{}, H{"name": "x"}, and a channel (a value
\* encoding/json cannot serialize).
PayloadInputs == {"nil", "H{}", "H{name:x}", "chan"}

\* Status codes a server answers with.
StatusCodes == {200, 404}

\* Response bodies, as the bytes read from the wire.
Bodies ==
    { "",
      "not json",
      "null",
      "[]",
      "{\"id\":1}",
      "{\"code\":0,\"msg\":\"success\",\"data\":{\"id\":1}}",
      "{\"code\":7,\"msg\":\"\",\"data\":{\"id\":2}}",
      "{\"code\":7,\"msg\":\"m\",\"id\":1}" }

---------------------------------------------------------------------------
\* Helpers (utils).

isEmptyString(s) == s = "" \/ s = Placeholder

containsMethod(s) == \E i \in 1..Len(QueryMethods) : QueryMethods[i] = s

\* The i-th character of s.
Char(s, i) == SubSeq(s, i, i)

LowerCase == "abcdefghijklmnopqrstuvwxyz"

UpperCase == "ABCDEFGHIJKLMNOPQRSTUVWXYZ"

Digits == "0123456789"

\* c is one of the characters of the string set.
OneOf(c, set) == \E i \in 1..Len(set) : Char(set, i) = c

\* unicode.ToUpper on an ASCII character.
UpperChar(c) ==
    IF OneOf(c, LowerCase)
    THEN Char(UpperCase, CHOOSE i \in 1..Len(LowerCase) : Char(LowerCase, i) = c)
    ELSE c

\* unicode.ToLower on an ASCII character.
LowerChar(c) ==
    IF OneOf(c, UpperCase)
    THEN Char(LowerCase, CHOOSE i \in 1..Len(UpperCase) : Char(UpperCase, i) = c)
    ELSE c

RECURSIVE CanonicalFrom(_, _, _)
\* The characters of a header name from the i-th on in canonical form: a
\* letter is in upper case at the start and after a hyphen, in lower case
\* elsewhere.
CanonicalFrom(s, i, upper) ==
    IF i > Len(s)
    THEN ""
    ELSE (IF upper THEN UpperChar(Char(s, i)) ELSE LowerChar(Char(s, i)))
             \o CanonicalFrom(s, i + 1, Char(s, i) = "-")

\* http.CanonicalHeaderKey
CanonicalHeaderKey(s) == CanonicalFrom(s, 1, TRUE)

RECURSIVE UpperFrom(_, _)
\* The characters of s from the i-th on, in upper case.
UpperFrom(s, i) ==
    IF i > Len(s) THEN "" ELSE UpperChar(Char(s, i)) \o UpperFrom(s, i + 1)

\* strings.ToUpper
ToUpper(s) == UpperFrom(s, 1)

\* isEmpty(value) for a payload (any): nil and the empty map are empty.
isEmptyPayload(p) == p \in {"nil", "H{}"}

\* isEmpty for *Exception.
isEmptyException(e) ==
    /\ e.CodeLocation = ""
    /\ e.PanicError = NoErr
    /\ e.FailureReason = ""
    /\ e.OccurrenceTime = 0

\* fileLocation(1) called on the given line of Send / createRequest: "file:line".
fileLocation(line) == "gloria.go:" \o ToString(line)

\* The Exception literal the code builds on `line`.
NewException(line, err, reason) ==
    [CodeLocation |-> fileLocation(line), PanicError |-> err,
     FailureReason |-> reason, OccurrenceTime |-> UnixNow]

---------------------------------------------------------------------------
\* The JSON codec (JSONLibrary; NativeJSONLibrary delegates to encoding/json,
\* GoJSONLibrary to go-json, which follows the same contract).

\* The JSON document a byte string holds, as the decoder's scanner sees it.
JSONParse(bs) ==
    CASE bs = "" -> [kind |-> "eof"]
      [] bs = "not json" -> [kind |-> "invalid"]
      [] bs = "null" -> [kind |-> "null"]
      [] bs = "[]" -> [kind |-> "array"]
      [] bs = "{\"id\":1}" ->
            [kind |-> "object", val |-> [id |-> 1]]
      [] bs = "{\"code\":0,\"msg\":\"success\",\"data\":{\"id\":1}}" ->
            [kind |-> "object",
             val |-> [code |-> 0, msg |-> "success",
                      data |-> [kind |-> "object", val |-> [id |-> 1]]]]
      [] bs = "{\"code\":7,\"msg\":\"\",\"data\":{\"id\":2}}" ->
            [kind |-> "object",
             val |-> [code |-> 7, msg |-> "",
                      data |-> [kind |-> "object", val |-> [id |-> 2]]]]
      [] bs = "{\"code\":7,\"msg\":\"m\",\"id\":1}" ->
            [kind |-> "object", val |-> [code |-> 7, msg |-> "m", id |-> 1]]

\* The error of Unmarshal(bs, target) for a struct target (the envelope or T):
\* no input and malformed input are syntax errors, a JSON array cannot be
\* stored into a struct; JSON null and JSON objects decode.
UnmarshalErr(bs) ==
    LET doc == JSONParse(bs) IN
    CASE doc.kind = "eof" -> "unexpected end of JSON input"
      [] doc.kind = "invalid" -> "invalid character 'o' in literal null (expecting 'u')"
      [] doc.kind = "array" -> "json: cannot unmarshal array into Go value"
      [] OTHER -> NoErr

\* Unmarshal of a document into a value of type T: the fields the object
\* names are stored, the others keep their value; null stores nothing.
UnmarshalT(doc, old) ==
    IF doc.kind = "object"
    THEN [id |-> IF "id" \in DOMAIN doc.val THEN doc.val.id ELSE old.id,
          msg |-> IF "msg" \in DOMAIN doc.val THEN doc.val.msg ELSE old.msg]
    ELSE old

\* Unmarshal(bs, &c.Result): c.Result is a pointer, so JSON null stores nil
\* into it; an object fills the envelope's code, msg and data.
UnmarshalResult(bs, old) ==
    LET doc == JSONParse(bs) IN
    CASE UnmarshalErr(bs) # NoErr -> old
      [] doc.kind = "null" -> NilResult
      [] OTHER ->
            [Code |-> IF "code" \in DOMAIN doc.val THEN doc.val.code ELSE old.Code,
             Msg |-> IF "msg" \in DOMAIN doc.val THEN doc.val.msg ELSE old.Msg,
             Data |-> IF "data" \in DOMAIN doc.val
                      THEN UnmarshalT(doc.val.data, old.Data)
                      ELSE old.Data]

\* Unmarshal(bs, &c.Result.Data)
UnmarshalData(bs, old) ==
    IF UnmarshalErr(bs) # NoErr
    THEN old
    ELSE [old EXCEPT !.Data = UnmarshalT(JSONParse(bs), old.Data)]

\* The error of Marshal(c.payload).
MarshalErr(p) == IF p = "chan" THEN "json: unsupported type: chan int" ELSE NoErr

---------------------------------------------------------------------------
\* Strings, URLs and log.

\* strings.TrimRight(s, cut) for a one-character cutset: the shortest
\* prefix of s that only characters of the cutset follow.
TrimRight(s, cut) ==
    LET n == CHOOSE k \in 0..Len(s) :
                 /\ \A j \in (k + 1)..Len(s) : SubSeq(s, j, j) = cut
                 /\ k > 0 => SubSeq(s, k, k) # cut
    IN SubSeq(s, 1, n)

\* url.Parse(u) fails: u holds an ASCII control character, or starts with
\* a colon (no protocol scheme before "://").
urlParseFails(u) ==
    \/ \E i \in 1..Len(u) : SubSeq(u, i, i) = "\t"
    \/ (Len(u) > 0 /\ SubSeq(u, 1, 1) = ":")

\* A method on a nil *log.Logger dereferences it: ChalkStr and ChalkPrintf
\* panic for a client without a logger.
ChalkPanics(cfg) == ~cfg.Logger

\* strings.Index(s, sub) counted from 1: the first place sub starts at in
\* s, 0 when there is none.
Index(s, sub) ==
    LET at == {i \in 1..(Len(s) - Len(sub) + 1) : SubSeq(s, i, i + Len(sub) - 1) = sub}
    IN IF at = {} THEN 0 ELSE CHOOSE i \in at : \A j \in at : i <= j

\* strings.Split(s, sep) for a separator of one character: the pieces of
\* s between the places of the separator.
Split(s, sep) ==
    LET at == {i \in 1..Len(s) : SubSeq(s, i, i) = sep}
        place(k) == CHOOSE i \in at : Cardinality({j \in at : j < i}) = k - 1
        n == Cardinality(at)
    IN [k \in 1..(n + 1) |->
           SubSeq(s, IF k = 1 THEN 1 ELSE place(k - 1) + 1,
                     IF k = n + 1 THEN Len(s) ELSE place(k) - 1)]

\* s is a non-empty string of decimal digits.
IsDigits(s) == Len(s) > 0 /\ \A i \in 1..Len(s) : OneOf(Char(s, i), Digits)

\* The value of the decimal digit c.
DigitValue(c) == (CHOOSE i \in 1..Len(Digits) : Char(Digits, i) = c) - 1

RECURSIVE ValueOfFirst(_, _)
\* The number the first n digits of s stand for.
ValueOfFirst(s, n) ==
    IF n = 0 THEN 0 ELSE 10 * ValueOfFirst(s, n - 1) + DigitValue(Char(s, n))

\* The number a string of decimal digits stands for.
Value(s) == ValueOfFirst(s, Len(s))

\* One label of a host name: [a-zA-Z0-9]([a-zA-Z0-9-]{0,61}[a-zA-Z0-9])?
IsLabel(l) ==
    LET alnum(c) == OneOf(c, LowerCase) \/ OneOf(c, UpperCase) \/ OneOf(c, Digits) IN
    /\ Len(l) \in 1..63
    /\ alnum(Char(l, 1))
    /\ alnum(Char(l, Len(l)))
    /\ \A i \in 1..Len(l) : alnum(Char(l, i)) \/ Char(l, i) = "-"

\* isValidHost: the pattern ^(localhost|(label(\.label)*)?(:\d{1,5})?)$
isValidHost(host) ==
    LET colon == Index(host, ":")
        name == IF colon = 0 THEN host ELSE SubSeq(host, 1, colon - 1)
        port == IF colon = 0 THEN "" ELSE SubSeq(host, colon + 1, Len(host))
        labels == Split(name, ".")
    IN /\ colon # 0 => (IsDigits(port) /\ Len(port) <= 5)
       /\ name = "" \/ \A i \in 1..Len(labels) : IsLabel(labels[i])

\* strconv.Atoi(s) succeeds and gives a port between 0 and 65535: an
\* optional sign, then digits.
IsPort(s) ==
    LET digits == IF Len(s) > 0 /\ Char(s, 1) \in {"+", "-"}
                  THEN SubSeq(s, 2, Len(s)) ELSE s
    IN /\ IsDigits(digits)
       /\ Len(digits) <= 18
       /\ (Len(s) > 0 /\ Char(s, 1) = "-") => Value(digits) = 0
       /\ Value(digits) <= 65535

\* net.ParseIP(s) # nil for a string without a colon: four decimal fields
\* from 0 to 255, without leading zeros, separated by dots.
IsIPv4(s) ==
    LET fields == Split(s, ".") IN
    /\ Len(fields) = 4
    /\ \A i \in 1..4 :
          /\ IsDigits(fields[i])
          /\ Len(fields[i]) <= 3
          /\ Value(fields[i]) <= 255
          /\ Len(fields[i]) > 1 => Char(fields[i], 1) # "0"

\* isValidIPAddrPort: the parts around ":" are an IP address and a port, or
\* the whole is an IP address; an address with colons of its own has more
\* than two parts and is refused.
isValidIPAddrPort(ipAddrPort) ==
    LET parts == Split(ipAddrPort, ":") IN
    CASE Len(parts) = 2 -> IsPort(parts[2]) /\ IsIPv4(parts[1])
      [] Len(parts) = 1 -> IsIPv4(parts[1])
      [] OTHER -> FALSE


\* The empty SMap / H.
EmptyMap == [k \in {} |-> ""]

\* What a client says about the request to make: the fields the setters
\* write.
Described(meta, u, ps, hs, pl) ==
    [Meta |-> meta, urls |-> u, params |-> ps, headers |-> hs, payload |-> pl]

---------------------------------------------------------------------------
\* Constructors.

\* New[T](): REST mode, no logger, encoding/json.
New ==
    [Config |-> [IsRestMode |-> TRUE, IsDebug |-> FALSE, Logger |-> FALSE,
                 FilterSlash |-> FALSE, DefaultOkCode |-> OkCode, JSONLoader |-> "native"],
     Meta |-> [Method |-> "", Url |-> ""],
     urls |-> [scheme |-> "", host |-> "", baseURI |-> "", endpoint |-> ""],
     payload |-> "nil",
     headers |-> [accept |-> "", contentType |-> "", language |-> "", userAgent |-> "",
                  cookies |-> << >>, extra |-> EmptyMap],
     params |-> EmptyMap,
     authorization |-> [authType |-> "", basicUsername |-> "", basicPassword |-> "",
                        bearerToken |-> ""],
     beforeRequest |-> << >>,
     afterResponse |-> << >>,
     Exception |-> EmptyException,
     Result |-> ZeroResult,
     Context |-> [HttpClient |-> ZeroHttpClient, Request |-> ZeroRequest,
                  Response |-> ZeroResponse]]

\* NewHTTP[T](): New().ToggleMode()
NewHTTP == [New EXCEPT !.Config.IsRestMode = ~@]

\* Default[T](): logger on, go-json, and the default pre-hook registered.
Default ==
    [New EXCEPT !.Config.Logger = TRUE,
                !.Config.JSONLoader = "gojson",
                !.beforeRequest = Append(@, [id |-> 1, kind |-> "default"])]

Init ==
    \E c \in {New, NewHTTP, Default} :
        /\ pc = "build"
        /\ idx = 0
        /\ exit = ""
        /\ Config = c.Config
        /\ Meta = c.Meta
        /\ urls = c.urls
        /\ payload = c.payload
        /\ beforeRequest = c.beforeRequest
        /\ afterResponse = c.afterResponse
        /\ Exception = c.Exception
        /\ Result = c.Result
        /\ Context = c.Context
        /\ resp = NoResp
        /\ log = << >>
        /\ excSets = 0
        /\ unwrap = [called |-> FALSE, raised |-> FALSE, out |-> ""]
        /\ headers = c.headers
        /\ params = c.params
        /\ calls = << >>
        /\ prev = Described(c.Meta, c.urls, c.params, c.headers, c.payload)
        /\ cb = [then |-> "", catch |-> ""]
        /\ seg = NoSeg
        /\ authorization = c.authorization

---------------------------------------------------------------------------
\* Options and setters (the client is being built).

\* A setter panicked: a fatal configuration error.
Fatal(unchanged) == pc' = "fatal" /\ UNCHANGED unchanged

ToggleMode ==
    /\ pc = "build"
    /\ Config' = [Config EXCEPT !.IsRestMode = ~@]
    /\ UNCHANGED <<pc, idx, exit, Meta, urls, payload, beforeRequest, afterResponse,
                   Exception, Result, Context, resp, log, excSets, unwrap>>
    /\ UNCHANGED <<headers, params, calls, prev, cb>>
    /\ UNCHANGED <<seg, authorization>>

WithIsDebug ==
    /\ pc = "build"
    /\ \E isDebug \in BOOLEAN : Config' = [Config EXCEPT !.IsDebug = isDebug]
    /\ Config' # Config
    /\ UNCHANGED <<pc, idx, exit, Meta, urls, payload, beforeRequest, afterResponse,
                   Exception, Result, Context, resp, log, excSets, unwrap>>
    /\ UNCHANGED <<headers, params, calls, prev, cb>>
    /\ UNCHANGED <<seg, authorization>>

WithUseLogger ==
    /\ pc = "build"
    /\ \E enabled \in BOOLEAN :
          Config' = IF enabled THEN [Config EXCEPT !.Logger = TRUE] ELSE Config
    /\ Config' # Config
    /\ UNCHANGED <<pc, idx, exit, Meta, urls, payload, beforeRequest, afterResponse,
                   Exception, Result, Context, resp, log, excSets, unwrap>>
    /\ UNCHANGED <<headers, params, calls, prev, cb>>
    /\ UNCHANGED <<seg, authorization>>

\* A SetMethod that stores the uppercased method before it validates it.
setMethodStoreFirst(meta, method) ==
    LET upper == ToUpper(method) IN
    [panic |-> ~containsMethod(upper), Meta |-> [meta EXCEPT !.Method = upper]]

\* SetMethod(method) on c.Meta: the method is uppercased, then validated
\* (isValidMethod panics), then stored.
setMethod(meta, method) ==
    LET upper == ToUpper(method) IN
    IF ~containsMethod(upper)
    THEN [panic |-> TRUE, Meta |-> meta]
    ELSE [panic |-> FALSE, Meta |-> [meta EXCEPT !.Method = upper]]

SetMethod ==
    /\ pc = "build"
    /\ \E m \in MethodInputs :
          LET got == setMethod(Meta, m) IN
          /\ Meta' = got.Meta
          /\ pc' = IF got.panic THEN "fatal" ELSE pc
    /\ UNCHANGED <<idx, exit, Config, urls, payload, beforeRequest, afterResponse,
                   Exception, Result, Context, resp, log, excSets, unwrap>>
    /\ UNCHANGED <<headers, params, calls, prev, cb>>
    /\ UNCHANGED <<seg, authorization>>

\* The host SetHost falls back to: localHost:localPort.
LocalHost == "127.0.0.1"

LocalPort == 8080

\* The scheme SetSchema stores.
SchemaOf(scheme) == IF isEmptyString(scheme) THEN ProtocolHttp ELSE scheme

\* The host SetHost validates.
HostOf(host) == IF isEmptyString(host) THEN LocalHost \o ":" \o ToString(LocalPort) ELSE host

\* The base URI SetBaseURI stores: the loop assigns TrimRight(baseUri, v) for
\* v = "/" and then v = "-", each time from the argument, so the last one stays.
BaseURIOf(baseUri) == TrimRight(baseUri, Placeholder)

\* The endpoint SetEndpoint stores.
EndpointOf(endpoint, filterSlash) ==
    IF isEmptyString(endpoint)
    THEN RootURL
    ELSE IF filterSlash THEN TrimRight(endpoint, RootURL) ELSE endpoint

\* SetSchema(scheme) on c.urls
setSchema(u, cfg, scheme) ==
    IF SchemaOf(scheme) # ProtocolHttp /\ SchemaOf(scheme) # "https"
    THEN [panic |-> TRUE, urls |-> u]
    ELSE [panic |-> FALSE, urls |-> [u EXCEPT !.scheme = SchemaOf(scheme)]]

\* A SetHost that stores the host before it validates it.
setHostStoreFirst(u, cfg, host) ==
    [panic |-> ~isValidHost(HostOf(host)) /\ ~isValidIPAddrPort(HostOf(host)),
     urls |-> [u EXCEPT !.host = TrimRight(HostOf(host), "/")]]

\* SetHost(host) on c.urls
setHost(u, cfg, host) ==
    IF ~isValidHost(HostOf(host)) /\ ~isValidIPAddrPort(HostOf(host))
    THEN [panic |-> TRUE, urls |-> u]
    ELSE [panic |-> FALSE, urls |-> [u EXCEPT !.host = TrimRight(HostOf(host), "/")]]

\* SetBaseURI(baseUri) on c.urls; the debug line panics without a logger.
setBaseURI(u, cfg, baseUri) ==
    IF isEmptyString(baseUri) /\ cfg.IsDebug /\ ChalkPanics(cfg)
    THEN [panic |-> TRUE, urls |-> u]
    ELSE [panic |-> FALSE, urls |-> [u EXCEPT !.baseURI = BaseURIOf(baseUri)]]

\* SetEndpoint(endpoint) on c.urls; the debug line panics without a logger.
setEndpoint(u, cfg, endpoint) ==
    IF isEmptyString(endpoint) /\ cfg.IsDebug /\ ChalkPanics(cfg)
    THEN [panic |-> TRUE, urls |-> u]
    ELSE [panic |-> FALSE,
          urls |-> [u EXCEPT !.endpoint = EndpointOf(endpoint, cfg.FilterSlash)]]

\* SetURL: SetSchema, SetHost, SetBaseURI, SetEndpoint in this order; a part
\* that panics leaves the parts before it stored.
setURL(u, cfg, scheme, host, baseUri, endpoint) ==
    LET s1 == setSchema(u, cfg, scheme)
        s2 == setHost(s1.urls, cfg, host)
        s3 == setBaseURI(s2.urls, cfg, baseUri)
        s4 == setEndpoint(s3.urls, cfg, endpoint)
    IN CASE s1.panic -> s1
         [] s2.panic -> s2
         [] s3.panic -> s3
         [] OTHER -> s4

SetURL ==
    /\ pc = "build"
    /\ \E scheme \in {"-"}, host \in {""}, baseUri \in {""}, endpoint \in EndpointInputs :
          LET got == setURL(urls, Config, scheme, host, baseUri, endpoint) IN
          /\ urls' = got.urls
          /\ pc' = IF got.panic THEN "fatal" ELSE pc
    /\ UNCHANGED <<idx, exit, Config, Meta, payload, beforeRequest, afterResponse,
                   Exception, Result, Context, resp, log, excSets, unwrap>>
    /\ UNCHANGED <<headers, params, calls, prev, cb>>
    /\ UNCHANGED <<seg, authorization>>

SetPayload ==
    /\ pc = "build"
    /\ \E data \in PayloadInputs : payload' = data
    /\ payload' # payload
    /\ UNCHANGED <<pc, idx, exit, Config, Meta, urls, beforeRequest, afterResponse,
                   Exception, Result, Context, resp, log, excSets, unwrap>>
    /\ UNCHANGED <<headers, params, calls, prev, cb>>
    /\ UNCHANGED <<seg, authorization>>

\* The k hooks a UsePreHooks / UsePostHooks call passes, numbered in the
\* order of registration after the n already registered.
NewHooks(n, k) == [i \in 1..k |-> [id |-> n + i, kind |-> "user"]]

\* A registration that puts the new hooks in front of the registered ones.
PrependHooks(slice, funcs) == funcs \o slice

\* The loop of appends of UsePreHooks / UsePostHooks.
AppendHooks(slice, funcs) == slice \o funcs

UsePreHooks ==
    /\ pc = "build"
    /\ \E k \in 1..(MaxHooks - Len(beforeRequest)) :
          IF Config.IsDebug /\ ChalkPanics(Config)
          THEN Fatal(<<beforeRequest>>)
          ELSE /\ beforeRequest' =
                      AppendHooks(beforeRequest, NewHooks(Len(beforeRequest), k))
               /\ pc' = pc
    /\ UNCHANGED <<idx, exit, Config, Meta, urls, payload, afterResponse,
                   Exception, Result, Context, resp, log, excSets, unwrap>>
    /\ UNCHANGED <<headers, params, calls, prev, cb>>
    /\ UNCHANGED <<seg, authorization>>

UsePostHooks ==
    /\ pc = "build"
    /\ \E k \in 1..(MaxHooks - Len(afterResponse)) :
          IF Config.IsDebug /\ ChalkPanics(Config)
          THEN Fatal(<<afterResponse>>)
          ELSE /\ afterResponse' =
                      AppendHooks(afterResponse, NewHooks(Len(afterResponse), k))
               /\ pc' = pc
    /\ UNCHANGED <<idx, exit, Config, Meta, urls, payload, beforeRequest,
                   Exception, Result, Context, resp, log, excSets, unwrap>>
    /\ UNCHANGED <<headers, params, calls, prev, cb>>
    /\ UNCHANGED <<seg, authorization>>

---------------------------------------------------------------------------
\* Headers and query parameters.

\* Values of a map of type H (map[string]any), each with its dynamic type.
StrV(v) == [t |-> "string", s |-> v]

IntV(v) == [t |-> "int", n |-> v]

BoolV(v) == [t |-> "bool", b |-> v]

StrsV(v) == [t |-> "[]string", ss |-> v]

\* A float64 with one decimal digit: whole + tenths / 10.
FloatV(whole, tenths) == [t |-> "float64", w |-> whole, d |-> tenths]

IntsV(v) == [t |-> "[]int", ns |-> v]

Nil == [t |-> "nil"]

RECURSIVE JoinFrom(_, _, _)
\* The elements from the i-th on, with the separator between them.
JoinFrom(elems, sep, i) ==
    IF i > Len(elems) THEN ""
    ELSE IF i = Len(elems) THEN elems[i]
    ELSE elems[i] \o sep \o JoinFrom(elems, sep, i + 1)

\* strings.Join(elems, sep)
Join(elems, sep) == JoinFrom(elems, sep, 1)

\* The string convertToSMap stores for a value of a supported type.
FormatValue(x) ==
    CASE x.t = "string" -> x.s
      [] x.t = "int" -> ToString(x.n)
      [] x.t = "bool" -> IF x.b THEN "true" ELSE "false"
      [] x.t = "float64" -> IF x.d = 0 THEN ToString(x.w)
                            ELSE ToString(x.w) \o "." \o ToString(x.d)
      [] x.t = "[]string" -> Join(x.ss, ",")
      [] x.t = "[]int" -> Join([i \in 1..Len(x.ns) |-> ToString(x.ns[i])], ",")

\* The cases of the type switch of convertToSMap.
SupportedTypes == {"string", "int", "float64", "bool", "[]string", "[]int"}

\* A convertToSMap that leaves out the values of an unsupported type.
convertToSMapSkipping(input) ==
    LET keys == {k \in DOMAIN input : input[k].t \in SupportedTypes}
    IN [panic |-> FALSE, out |-> [k \in keys |-> FormatValue(input[k])]]

\* convertToSMap(input): the SMap of the formatted values, or a panic when a
\* value has an unsupported type; the output is a new map.
convertToSMap(input) ==
    IF \E k \in DOMAIN input : input[k].t \notin SupportedTypes
    THEN [panic |-> TRUE, out |-> EmptyMap]
    ELSE [panic |-> FALSE, out |-> [k \in DOMAIN input |-> FormatValue(input[k])]]

\* isEmpty for map[string]string and map[string]any.
isEmptyMap(m) == DOMAIN m = {}

\* A bulk setter that replaces the stored map by the one passed.
setBulkReplace(stored, input) ==
    LET parsed == convertToSMap(input) IN
    IF parsed.panic
    THEN [panic |-> TRUE, out |-> stored]
    ELSE [panic |-> FALSE, out |-> parsed.out]

\* The body SetHeaders and SetQueryParams share, on the stored map
\* (c.headers.extra, c.params): an empty stored map is replaced by the
\* converted one, otherwise the converted entries are assigned key by key.
setBulk(stored, input) ==
    LET parsed == convertToSMap(input) IN
    IF parsed.panic
    THEN [panic |-> TRUE, out |-> stored]
    ELSE IF isEmptyMap(stored)
    THEN [panic |-> FALSE, out |-> parsed.out]
    ELSE [panic |-> FALSE,
          out |-> [k \in DOMAIN stored \cup DOMAIN parsed.out |->
                      IF k \in DOMAIN parsed.out THEN parsed.out[k] ELSE stored[k]]]

\* SetHeaders(headers) on c.headers
setHeaders(hs, input) ==
    LET got == setBulk(hs.extra, input) IN
    [panic |-> got.panic, headers |-> [hs EXCEPT !.extra = got.out]]

\* SetQueryParams(params) on c.params
setQueryParams(ps, input) ==
    LET got == setBulk(ps, input) IN
    [panic |-> got.panic, params |-> got.out]

---------------------------------------------------------------------------
\* SetRequest.

\* strings.Replace(s, old, new, 1): the first occurrence of old, if any, is
\* replaced.
Replace(s, old, new) ==
    LET i == Index(s, old) IN
    IF i = 0
    THEN s
    ELSE SubSeq(s, 1, i - 1) \o new \o SubSeq(s, i + Len(old), Len(s))

\* s is a non-empty string of letters.
IsLetters(s) ==
    Len(s) > 0 /\ \A i \in 1..Len(s) : OneOf(Char(s, i), LowerCase \o UpperCase)

\* url.Parse(u) for a URL without user information, fragment and percent
\* escapes: a scheme is the letters before the first colon, an authority
\* follows "//", and the query follows the first "?".
urlParse(u) ==
    LET q == Index(u, "?")
        noQuery == IF q = 0 THEN u ELSE SubSeq(u, 1, q - 1)
        c == Index(noQuery, ":")
        hasScheme == c > 1 /\ IsLetters(SubSeq(noQuery, 1, c - 1))
        rest == IF hasScheme THEN SubSeq(noQuery, c + 1, Len(noQuery)) ELSE noQuery
        hasHost == Len(rest) >= 2 /\ SubSeq(rest, 1, 2) = "//"
        afterSlashes == SubSeq(rest, 3, Len(rest))
        p == Index(afterSlashes, "/")
    IN [Scheme |-> IF hasScheme THEN SubSeq(noQuery, 1, c - 1) ELSE "",
        Host |-> IF ~hasHost THEN ""
                 ELSE IF p = 0 THEN afterSlashes
                 ELSE SubSeq(afterSlashes, 1, p - 1),
        Path |-> IF ~hasHost THEN rest
                 ELSE IF p = 0 THEN ""
                 ELSE SubSeq(afterSlashes, p, Len(afterSlashes)),
        RawQuery |-> IF q = 0 THEN "" ELSE SubSeq(u, q + 1, Len(u))]

\* The key=value pairs of a raw query, in their order; an empty pair is
\* skipped and a pair without "=" has the empty value.
QueryPairs(rawQuery) ==
    LET parts == SelectSeq(Split(rawQuery, "&"), LAMBDA kv : kv # "")
    IN [i \in 1..Len(parts) |->
           LET e == Index(parts[i], "=") IN
           IF e = 0
           THEN [k |-> parts[i], v |-> ""]
           ELSE [k |-> SubSeq(parts[i], 1, e - 1),
                 v |-> SubSeq(parts[i], e + 1, Len(parts[i]))]]

\* url.URL.Query()[key]: the values of the key, in their order.
QueryValues(pairs, key) ==
    LET of == SelectSeq(pairs, LAMBDA kv : kv.k = key)
    IN [i \in 1..Len(of) |-> of[i].v]

\* A urlSegments that keeps the whole path as the endpoint.
urlSegmentsWholePath(urlpath) ==
    LET parsedURL == urlParse(urlpath)
        pairs == QueryPairs(parsedURL.RawQuery)
    IN [scheme |-> parsedURL.Scheme,
        host |-> parsedURL.Host,
        baseURI |-> RootURL,
        endpoint |-> parsedURL.Path,
        params |-> [k \in {pairs[i].k : i \in 1..Len(pairs)} |->
                       StrV(Join(QueryValues(pairs, k), ","))]]

\* A urlSegments that takes the first segment as the base path whatever
\* the number of segments.
urlSegmentsFirstAsBase(urlpath) ==
    LET parsedURL == urlParse(urlpath)
        pathSegments == Split(parsedURL.Path, "/")
    IN [scheme |-> parsedURL.Scheme,
        host |-> parsedURL.Host,
        baseURI |-> IF Len(pathSegments) >= 2 THEN RootURL \o pathSegments[2] ELSE RootURL,
        endpoint |-> RootURL \o Join(SubSeq(pathSegments, 3, Len(pathSegments)), "/"),
        params |-> EmptyMap]

\* urlSegments(urlpath), for a urlpath that url.Parse accepts: the values
\* of a query key are joined by ","; a path of one segment is the endpoint,
\* of a longer path the first segment is the base path and the others are
\* the endpoint.
urlSegments(urlpath) ==
    LET parsedURL == urlParse(urlpath)
        path == parsedURL.Path
        pairs == QueryPairs(parsedURL.RawQuery)
        pathSegments == Split(path, "/")
    IN [scheme |-> parsedURL.Scheme,
        host |-> parsedURL.Host,
        baseURI |-> IF Len(pathSegments) > 2
                    THEN RootURL \o pathSegments[2]
                    ELSE RootURL,
        endpoint |-> IF Len(pathSegments) = 2 THEN path
                     ELSE IF Len(pathSegments) > 2
                     THEN RootURL \o Join(SubSeq(pathSegments, 3, Len(pathSegments)), "/")
                     ELSE RootURL,
        params |-> [k \in {pairs[i].k : i \in 1..Len(pairs)} |->
                       StrV(Join(QueryValues(pairs, k), ","))]]

\* The path SetRequest parses: the switch on len(pathParams) has the cases
\* 0, 1, 2 and 3 (a panic) and no default, so that with more values
\* tempPath stays empty.
tempPath(path, pathParams) ==
    CASE Len(pathParams) = 0 -> path
      [] Len(pathParams) = 1 -> Replace(path, ":id", pathParams[1])
      [] Len(pathParams) = 2 ->
            Replace(Replace(path, ":id", pathParams[1]), ":sid", pathParams[2])
      [] OTHER -> ""

\* SetRequest once the path is parsed: SetMethod, SetURL, and SetQueryParams
\* unless the method is OPTIONS or the path has no query; a step that
\* panics leaves the steps before it stored.
setParsed(meta, u, ps, cfg, method, refused, parseUrl) ==
    LET m == setMethod(meta, method)
        s == setURL(u, cfg, parseUrl.scheme, parseUrl.host, parseUrl.baseURI,
                    parseUrl.endpoint)
        q == setQueryParams(ps, parseUrl.params)
    IN CASE refused \/ m.panic ->
               [panic |-> TRUE, Meta |-> meta, urls |-> u, params |-> ps]
         [] s.panic ->
               [panic |-> TRUE, Meta |-> m.Meta, urls |-> s.urls, params |-> ps]
         [] method # "OPTIONS" /\ ~isEmptyMap(parseUrl.params) ->
               [panic |-> q.panic, Meta |-> m.Meta, urls |-> s.urls, params |-> q.params]
         [] OTHER ->
               [panic |-> FALSE, Meta |-> m.Meta, urls |-> s.urls, params |-> ps]

\* SetRequest(method, path, pathParams...) on the method, the URL parts and
\* the query parameters: three route values and a path that url.Parse
\* refuses panic before anything is stored.
setRequest(meta, u, ps, cfg, method, path, pathParams) ==
    LET temp == tempPath(path, pathParams) IN
    CHOOSE got \in
        {setParsed(meta, u, ps, cfg, method,
                   Len(pathParams) = 3 \/ urlParseFails(temp), parseUrl) :
            parseUrl \in {urlSegments(temp)}} : TRUE

---------------------------------------------------------------------------
\* Send.

\* What a hook may return: a hook of the caller that leaves the client as
\* it is returns nil or its own error, the others return nil.
HookErr(list, md) == list \o "-hook " \o ToString(md.id) \o " failed"

HookReturns(list, md) ==
    IF md.kind = "user" THEN {NoErr, HookErr(list, md)} ELSE {NoErr}

\* One step of the history: what ran, which hook, and the error it gave.
Step(ev, id, err) == [ev |-> ev, id |-> id, err |-> err]

\* The caller invokes Send.
Send ==
    /\ pc = "build"
    /\ pc' = "pre"
    /\ idx' = 1
    /\ UNCHANGED <<exit, Config, Meta, urls, payload, beforeRequest, afterResponse,
                   Exception, Result, Context, resp, log, excSets, unwrap>>
    /\ UNCHANGED <<headers, params, calls, prev, cb>>
    /\ UNCHANGED <<seg, authorization>>

\* A loop body that records the error of a pre-hook and goes on.
preHookResultNoReturn(err, exc) ==
    IF err # NoErr
    THEN [Exception |-> NewException(268, err, ""), set |-> 1, return |-> FALSE]
    ELSE [Exception |-> exc, set |-> 0, return |-> FALSE]

\* The body of the loop over c.beforeRequest, for a hook that returned err:
\* an error is recorded and Send returns.
preHookResult(err, exc) ==
    IF err # NoErr
    THEN [Exception |-> NewException(268, err, ""), set |-> 1, return |-> TRUE]
    ELSE [Exception |-> exc, set |-> 0, return |-> FALSE]

\* A nil *header.
NilHeader == [nil |-> TRUE]

\* isEmpty(c.headers): a *header is handled by the default case, which
\* compares the pointer with the nil pointer of its type.
isEmptyHeader(hs) == hs = NilHeader

\* getUserAgent(): title, version, platform and Go version of the build.
LibraryUserAgent == "Gloria/version (os arch) Go/major.minor.patch"

\* The header the pre-hook of Default() assigns.
DefaultHeaders ==
    [accept |-> "application/json", contentType |-> "application/json",
     language |-> "en-US,en;q=0.9", userAgent |-> LibraryUserAgent,
     cookies |-> << >>, extra |-> EmptyMap]

\* The pre-hook that Default() registers, on c.headers.
defaultPreHook(hs) == IF isEmptyHeader(hs) THEN DefaultHeaders ELSE hs

\* What the pre-hooks that change the client they receive assign: a
\* signature header, a query parameter, the payload.
SignatureKey == "X-Signature"

SignatureOf(md) == "sig-" \o ToString(md.id)

HookParamKey == "q"

HookParamOf(md) == "h" \o ToString(md.id)

HookPayload == "H{name:x}"

\* c.SetHeader(key, value): c.headers.extra[key] = value
setHeader(hs, key, value) ==
    [hs EXCEPT !.extra = [k \in DOMAIN @ \cup {key} |-> IF k = key THEN value ELSE @[k]]]

\* c.SetQueryParam(key, value): c.params[key] = value
setQueryParam(ps, key, value) ==
    [k \in DOMAIN ps \cup {key} |-> IF k = key THEN value ELSE ps[k]]

\* fn(c) of the loop over c.beforeRequest: what the hook leaves in the
\* client. The hook of Default() assigns c.headers; a hook of the caller
\* calls SetHeader, SetQueryParam or SetPayload on the client, or leaves it
\* as it is.
hookBody(md, hs, ps, pl) ==
    CASE md.kind = "default" ->
             [headers |-> defaultPreHook(hs), params |-> ps, payload |-> pl]
      [] md.kind = "setsHeader" ->
             [headers |-> setHeader(hs, SignatureKey, SignatureOf(md)),
              params |-> ps, payload |-> pl]
      [] md.kind = "setsParam" ->
             [headers |-> hs, params |-> setQueryParam(ps, HookParamKey, HookParamOf(md)),
              payload |-> pl]
      [] md.kind = "setsPayload" ->
             [headers |-> hs, params |-> ps, payload |-> HookPayload]
      [] OTHER -> [headers |-> hs, params |-> ps, payload |-> pl]

\* One iteration of the loop over c.beforeRequest.
SendPreHook ==
    /\ pc = "pre"
    /\ idx <= Len(beforeRequest)
    /\ LET md == beforeRequest[idx] IN
       \E err \in HookReturns("pre", md) :
          LET got == preHookResult(err, Exception) IN
          /\ log' = Append(log, Step("pre", md.id, err))
          /\ Exception' = got.Exception
          /\ excSets' = excSets + got.set
          /\ pc' = IF got.return THEN "returned" ELSE pc
          /\ idx' = idx + 1
          /\ \E after \in {hookBody(md, headers, params, payload)} :
                /\ headers' = after.headers
                /\ params' = after.params
                /\ payload' = after.payload
    /\ UNCHANGED <<exit, Config, Meta, urls, beforeRequest, afterResponse,
                   Result, Context, resp, unwrap>>
    /\ UNCHANGED <<calls, prev, cb>>
    /\ UNCHANGED <<seg, authorization>>

\* The keys of the query parameters that occur, in the order in which
\* url.Values.Encode sorts them.
SortedKeys == <<"a", "b", "n", "q">>

\* url.Values.Encode() of the query parameters: key=value pairs joined by
\* "&", sorted by key (keys and values of letters and digits, which
\* QueryEscape leaves as they are).
Encode(ps) ==
    LET keys == SelectSeq(SortedKeys, LAMBDA k : k \in DOMAIN ps)
    IN Join([i \in 1..Len(keys) |-> keys[i] \o "=" \o ps[keys[i]]], "&")

\* A parseFullURLPath that leaves the base path out of the URL.
parseFullURLPathNoBase(meta, u, ps) ==
    LET urlPath == IF isEmptyString(meta.Url)
                   THEN u.scheme \o "://" \o u.host \o u.endpoint
                   ELSE ""
    IN IF isEmptyMap(ps) THEN urlPath ELSE urlPath \o "?" \o Encode(ps)

\* parseFullURLPath: the URL path is assembled only while Meta.Url is empty,
\* and the encoded query parameters, if any, follow a "?".
parseFullURLPath(meta, u, ps) ==
    LET urlPath ==
            IF isEmptyString(meta.Url)
            THEN IF u.baseURI = RootURL
                 THEN u.scheme \o "://" \o u.host \o "" \o u.endpoint
                 ELSE u.scheme \o "://" \o u.host \o u.baseURI \o u.endpoint
            ELSE ""
    IN IF isEmptyMap(ps) THEN urlPath ELSE urlPath \o "?" \o Encode(ps)

\* http.NewRequest(method, url, body): the request, or nil with an error.
NewRequest(method, url, hasBody) ==
    IF urlParseFails(url)
    THEN [req |-> NilRequest, err |-> "parse " \o url \o ": invalid URL"]
    ELSE [req |-> [kind |-> "built", Method |-> method, URL |-> url, Body |-> hasBody,
                   Header |-> EmptyMap],
          err |-> NoErr]

\* The header of the request, from c.headers: the extra headers replace the
\* header, then User-Agent, Accept, Content-Type and Content-Language are
\* set, each when the stored value is not empty.
requestHeader(hs) ==
    LET set == {<<"User-Agent", hs.userAgent>>, <<"Accept", hs.accept>>,
                <<"Content-Type", hs.contentType>>, <<"Content-Language", hs.language>>}
        named == {kv \in set : ~isEmptyString(kv[2])}
        keys == {kv[1] : kv \in named}
    IN [k \in DOMAIN hs.extra \cup keys |->
           IF k \in keys THEN (CHOOSE kv \in named : kv[1] = k)[2] ELSE hs.extra[k]]

\* http.Header.Set(key, value) and http.Header.Get(key) for a canonical key.
HeaderSet(h, key, value) ==
    [k \in DOMAIN h \cup {key} |-> IF k = key THEN value ELSE h[k]]

HeaderGet(h, key) == IF key \in DOMAIN h THEN h[key] ELSE ""

AuthTypeBasic == "Basic"

AuthTypeBearer == "Bearer"

\* base64.StdEncoding.EncodeToString of the credentials that occur.
StdEncoding ==
    ("user:pass" :> "dXNlcjpwYXNz") @@ ("admin:secret" :> "YWRtaW46c2VjcmV0") @@
    (":" :> "Og==")

\* getBasicAuth(username, password)
getBasicAuth(username, password) ==
    AuthTypeBasic \o " " \o StdEncoding[username \o ":" \o password]

\* getBearerAuth(token)
getBearerAuth(token) == AuthTypeBearer \o " " \o token

\* A createRequest that derives no Authorization header.
requestAuthorizationNone(h, auth) == h

\* The switch of createRequest on c.authorization.authType: Authorization
\* is set for the basic and for the bearer variant.
requestAuthorization(h, auth) ==
    CASE auth.authType = AuthTypeBasic ->
             HeaderSet(h, "Authorization",
                       getBasicAuth(auth.basicUsername, auth.basicPassword))
      [] auth.authType = AuthTypeBearer ->
             HeaderSet(h, "Authorization", getBearerAuth(auth.bearerToken))
      [] OTHER -> h

\* req.AddCookie(v): name=value is appended to the Cookie header, after
\* "; " when the header has a value.
AddCookie(h, v) ==
    LET c == HeaderGet(h, "Cookie")
        str == v.Name \o "=" \o v.Value
    IN HeaderSet(h, "Cookie", IF c # "" THEN c \o "; " \o str ELSE str)

\* The loop of createRequest over c.headers.cookies, from the i-th cookie on.
RECURSIVE requestCookies(_, _, _)
requestCookies(h, cookies, i) ==
    IF i > Len(cookies) THEN h ELSE requestCookies(AddCookie(h, cookies[i]), cookies, i + 1)

\* httpClientDefaultConf: the client whose transport logs when a logger is set.
httpClientDefaultConf(logFmt) == [configured |-> TRUE, logged |-> logFmt]

\* What createRequest leaves in c.Context and c.Exception once the method is
\* known to be set: a payload that does not serialize, or a request that
\* cannot be built, is recorded, and createRequest returns to Send.
createRequest(meta, url, pl, cfg, ctx, exc, hs, auth) ==
    IF ~isEmptyPayload(pl) /\ MarshalErr(pl) # NoErr
    THEN [Context |-> ctx,
          Exception |-> NewException(914, MarshalErr(pl), ""),
          set |-> 1, err |-> MarshalErr(pl)]
    ELSE LET made == NewRequest(meta.Method, url, ~isEmptyPayload(pl)) IN
         IF made.err # NoErr
         THEN [Context |-> [ctx EXCEPT !.Request = made.req],
               Exception |-> NewException(928, made.err, ""),
               set |-> 1, err |-> made.err]
         ELSE [Context |-> [ctx EXCEPT !.Request = [made.req EXCEPT
                                           !.Header = requestCookies(
                                               requestAuthorization(requestHeader(hs), auth),
                                               hs.cookies, 1)],
                                       !.HttpClient = httpClientDefaultConf(cfg.Logger)],
               Exception |-> exc,
               set |-> 0, err |-> NoErr]

\* A Send that calls createRequest when the last pre-hook is still to run.
loopEndedBeforeLast(i, hooks) == i >= Len(hooks)

\* The range loop over the hooks has ended: every hook has been called and
\* has returned nil.
loopEnded(i, hooks) == i > Len(hooks)

\* c.createRequest(), called once the loop over the pre-hooks has ended; Send
\* goes on to the round trip whatever createRequest recorded.
SendCreateRequest ==
    /\ pc = "pre"
    /\ loopEnded(idx, beforeRequest)
    /\ IF isEmptyString(Meta.Method)
       THEN /\ pc' = "panicked"
            /\ UNCHANGED <<Meta, Context, Exception, excSets, log>>
       ELSE LET url == parseFullURLPath(Meta, urls, params)
                made == createRequest(Meta, url, payload, Config, Context, Exception, headers,
                                      authorization)
            IN /\ Meta' = [Meta EXCEPT !.Url = url]
               /\ Context' = made.Context
               /\ Exception' = made.Exception
               /\ excSets' = excSets + made.set
               /\ log' = Append(log, Step("create", 0, made.err))
               /\ pc' = "do"
    /\ UNCHANGED <<idx, exit, Config, urls, payload, beforeRequest, afterResponse,
                   Result, resp, unwrap>>
    /\ UNCHANGED <<headers, params, calls, prev, cb>>
    /\ UNCHANGED <<seg, authorization>>

\* Errors of a round trip: the connection fails, or the timeout expires.
RoundTripErrs ==
    {"dial tcp: connection refused",
     "context deadline exceeded (Client.Timeout exceeded while awaiting headers)"}

\* The responses a server may give to a request with this method: a HEAD
\* response has no body whatever length it declares; otherwise the declared
\* length is that of the body, or unknown (-1, chunked).
Responses(method) ==
    IF method = "HEAD"
    THEN {[StatusCode |-> sc, Body |-> "", ContentLength |-> n] :
             sc \in StatusCodes, n \in {-1, 0, 8}}
    ELSE {[StatusCode |-> sc, Body |-> b, ContentLength |-> -1] :
             sc \in StatusCodes, b \in Bodies}
         \cup
         {[StatusCode |-> sc, Body |-> b, ContentLength |-> Len(b)] :
             sc \in StatusCodes, b \in Bodies}

\* What the transport of this client gives: the outcomes of a round trip,
\* each a response or an error; loggedTransport.RoundTrip reads
\* response.StatusCode for its log line whatever err is, and panics on the
\* nil response of a failed round trip.
RoundTrip(client, req) ==
    {[panic |-> FALSE, resp |-> r, err |-> NoErr] : r \in Responses(req.Method)}
    \cup
    {[panic |-> client.logged, resp |-> NoResp, err |-> e] : e \in RoundTripErrs}

\* c.Context.HttpClient.Do(c.Context.Request): a nil request is
\* dereferenced, a request without a URL is refused before any round trip.
Do(client, req) ==
    CASE req.kind = "nil" ->
            {[panic |-> TRUE, resp |-> NoResp, err |-> NoErr, sent |-> FALSE]}
      [] req.kind = "zero" ->
            {[panic |-> FALSE, resp |-> NoResp, err |-> "http: nil Request.URL",
              sent |-> FALSE]}
      [] OTHER ->
            {[panic |-> o.panic, resp |-> o.resp, err |-> o.err, sent |-> TRUE] :
                o \in RoundTrip(client, req)}

\* The check of Do's error: it is recorded and Send returns.
doResult(err, exc) ==
    IF err # NoErr
    THEN [Exception |-> NewException(287, err, ""), set |-> 1, return |-> TRUE]
    ELSE [Exception |-> exc, set |-> 0, return |-> FALSE]

\* The round trip and the check of its error.
SendDo ==
    /\ pc = "do"
    /\ \E o \in Do(Context.HttpClient, Context.Request) :
          /\ log' = IF o.sent THEN Append(log, Step("transport", 0, o.err)) ELSE log
          /\ IF o.panic
             THEN /\ pc' = "panicked"
                  /\ UNCHANGED <<idx, Exception, excSets, resp>>
             ELSE LET got == doResult(o.err, Exception) IN
                  /\ Exception' = got.Exception
                  /\ excSets' = excSets + got.set
                  /\ resp' = o.resp
                  /\ pc' = IF got.return THEN "returned" ELSE "post"
                  /\ idx' = 1
    /\ UNCHANGED <<exit, Config, Meta, urls, payload, beforeRequest, afterResponse,
                   Result, Context, unwrap>>
    /\ UNCHANGED <<headers, params, calls, prev, cb>>
    /\ UNCHANGED <<seg, authorization>>

\* A loop body that records the error of a post-hook and goes on.
postHookResultNoReturn(err, exc) ==
    IF err # NoErr
    THEN [Exception |-> NewException(317, err, ""), set |-> 1, return |-> FALSE]
    ELSE [Exception |-> exc, set |-> 0, return |-> FALSE]

\* The body of the loop over c.afterResponse, for a hook that returned err.
postHookResult(err, exc) ==
    IF err # NoErr
    THEN [Exception |-> NewException(317, err, ""), set |-> 1, return |-> TRUE]
    ELSE [Exception |-> exc, set |-> 0, return |-> FALSE]

\* One iteration of the loop over c.afterResponse.
SendPostHook ==
    /\ pc = "post"
    /\ idx <= Len(afterResponse)
    /\ LET md == afterResponse[idx] IN
       \E err \in HookReturns("post", md) :
          LET got == postHookResult(err, Exception) IN
          /\ log' = Append(log, Step("post", md.id, err))
          /\ Exception' = got.Exception
          /\ excSets' = excSets + got.set
          /\ pc' = IF got.return THEN "close" ELSE pc
          /\ exit' = IF got.return THEN "return" ELSE exit
          /\ idx' = idx + 1
    /\ UNCHANGED <<Config, Meta, urls, payload, beforeRequest, afterResponse,
                   Result, Context, resp, unwrap>>
    /\ UNCHANGED <<headers, params, calls, prev, cb>>
    /\ UNCHANGED <<seg, authorization>>

\* Errors of ioutil.ReadAll(resp.Body): none, or the connection breaks.
ReadErrs == {NoErr, "unexpected EOF"}

\* ioutil.ReadAll gave (body, err): an error is recorded; otherwise the
\* Response record is stored and a declared length of 0 is recorded.
readResult(r, err, ctx, exc) ==
    IF err # NoErr
    THEN [Context |-> ctx, Exception |-> NewException(328, err, ""),
          set |-> 1, return |-> TRUE]
    ELSE LET stored == [ctx EXCEPT !.Response =
                           [R |-> TRUE, Status |-> r.StatusCode, bs |-> r.Body,
                            text |-> r.Body, length |-> r.ContentLength]]
         IN IF stored.Response.length = 0
            THEN [Context |-> stored,
                  Exception |-> NewException(345, "response body length is 0", ""),
                  set |-> 1, return |-> TRUE]
            ELSE [Context |-> stored, Exception |-> exc, set |-> 0, return |-> FALSE]

\* The body read, once the loop over the post-hooks has ended.
SendReadBody ==
    /\ pc = "post"
    /\ idx > Len(afterResponse)
    /\ \E err \in ReadErrs :
          LET got == readResult(resp, err, Context, Exception) IN
          /\ log' = Append(log, Step("read", 0, err))
          /\ Context' = got.Context
          /\ Exception' = got.Exception
          /\ excSets' = excSets + got.set
          /\ pc' = IF got.return THEN "close" ELSE "decode"
          /\ exit' = IF got.return THEN "return" ELSE exit
    /\ UNCHANGED <<idx, Config, Meta, urls, payload, beforeRequest, afterResponse,
                   Result, resp, unwrap>>
    /\ UNCHANGED <<headers, params, calls, prev, cb>>
    /\ UNCHANGED <<seg, authorization>>

\* A decode that takes the envelope for its target in either mode.
DecodeEnvelopeAlways(isRestMode, bs, result) == UnmarshalResult(bs, result)

\* The target of Unmarshal: the envelope in REST mode, its data otherwise.
Decode(isRestMode, bs, result) ==
    IF isRestMode THEN UnmarshalResult(bs, result) ELSE UnmarshalData(bs, result)

\* A check that lets the error of Unmarshal pass.
decodeResultUnchecked(errJson, exc) ==
    [Exception |-> exc, set |-> 0, return |-> FALSE]

\* The check of Unmarshal's error: it is recorded and Send returns.
decodeResult(errJson, exc) ==
    IF errJson # NoErr
    THEN [Exception |-> NewException(360, errJson, ""), set |-> 1, return |-> TRUE]
    ELSE [Exception |-> exc, set |-> 0, return |-> FALSE]

\* Unmarshal of the body, the check of its error, and the debug log line.
SendDecode ==
    /\ pc = "decode"
    /\ LET errJson == UnmarshalErr(Context.Response.bs)
           got == decodeResult(errJson, Exception)
       IN /\ log' = Append(log, Step("decode", 0, errJson))
          /\ Result' = Decode(Config.IsRestMode, Context.Response.bs, Result)
          /\ Exception' = got.Exception
          /\ excSets' = excSets + got.set
          /\ IF got.return
             THEN pc' = "close" /\ exit' = "return"
             ELSE IF Config.IsDebug /\ ChalkPanics(Config)
             THEN pc' = "close" /\ exit' = "panic"
             ELSE pc' = "classify" /\ exit' = exit
    /\ UNCHANGED <<idx, Config, Meta, urls, payload, beforeRequest, afterResponse,
                   Context, resp, unwrap>>
    /\ UNCHANGED <<headers, params, calls, prev, cb>>
    /\ UNCHANGED <<seg, authorization>>

\* The business classification: a status other than 200 records the
\* envelope's msg as the failure reason.
Classify(status, result, exc) ==
    IF status # StatusOK
    THEN [Exception |-> NewException(373, NoErr, result.Msg), set |-> 1]
    ELSE [Exception |-> exc, set |-> 0]

\* The check of the status code, and `return c`.
SendClassify ==
    /\ pc = "classify"
    /\ pc' = "close"
    /\ log' = Append(log, Step("classify", 0, NoErr))
    /\ IF Context.Response.Status # StatusOK /\ Result = NilResult
       THEN \* c.Result.Msg dereferences the nil c.Result
            /\ exit' = "panic"
            /\ UNCHANGED <<Exception, excSets>>
       ELSE LET got == Classify(Context.Response.Status, Result, Exception) IN
            /\ exit' = "return"
            /\ Exception' = got.Exception
            /\ excSets' = excSets + got.set
    /\ UNCHANGED <<idx, Config, Meta, urls, payload, beforeRequest, afterResponse,
                   Result, Context, resp, unwrap>>
    /\ UNCHANGED <<headers, params, calls, prev, cb>>
    /\ UNCHANGED <<seg, authorization>>

\* The error of resp.Body.Close(): the bodies http.Transport hands out over
\* HTTP/1.1 (the only transport httpClientDefaultConf builds) close without
\* an error, read to the end or not.
BodyCloseErr(r) == NoErr

\* The deferred function of Send: it closes the body and records the error
\* of Close, if any, over whatever Exception was recorded before; then Send
\* returns, or its panic goes on.
SendDeferredClose ==
    /\ pc = "close"
    /\ log' = Append(log, Step("close", 0, BodyCloseErr(resp)))
    /\ IF BodyCloseErr(resp) # NoErr
       THEN /\ Exception' = NewException(298, BodyCloseErr(resp), "")
            /\ excSets' = excSets + 1
            /\ pc' = IF exit = "panic" \/ ChalkPanics(Config)
                     THEN "panicked" ELSE "returned"
       ELSE /\ pc' = IF exit = "panic" THEN "panicked" ELSE "returned"
            /\ UNCHANGED <<Exception, excSets>>
    /\ UNCHANGED <<idx, exit, Config, Meta, urls, payload, beforeRequest, afterResponse,
                   Result, Context, resp, unwrap>>
    /\ UNCHANGED <<headers, params, calls, prev, cb>>
    /\ UNCHANGED <<seg, authorization>>

---------------------------------------------------------------------------
\* Unwrap.

\* Unwrap panics on a PanicError, formats a diagnostic on a FailureReason
\* and returns "" otherwise.
UnwrapOutcome(exc, meta, ctx, result) ==
    IF exc.PanicError # NoErr
    THEN [called |-> TRUE, raised |-> TRUE, out |-> ""]
    ELSE IF exc.FailureReason # ""
    THEN IF ~ctx.Response.R \/ result = NilResult
         THEN [called |-> TRUE, raised |-> TRUE, out |-> ""]
         ELSE [called |-> TRUE, raised |-> FALSE,
               out |-> "HTTP request method: [" \o meta.Method
                       \o "], business error reason: \"" \o exc.FailureReason \o "\""]
    ELSE [called |-> TRUE, raised |-> FALSE, out |-> ""]

Unwrap ==
    /\ pc = "returned"
    /\ ~unwrap.called
    /\ unwrap' = UnwrapOutcome(Exception, Meta, Context, Result)
    /\ UNCHANGED <<pc, idx, exit, Config, Meta, urls, payload, beforeRequest,
                   afterResponse, Exception, Result, Context, resp, log, excSets>>
    /\ UNCHANGED <<headers, params, calls, prev, cb>>
    /\ UNCHANGED <<seg, authorization>>

---------------------------------------------------------------------------
\* The shorthand layer.

\* A request that stores the data as the payload whatever the method.
requestPayloadAlways(method, data, old) ==
    IF isEmptyPayload(data) THEN "nil" ELSE data

\* The payload request leaves on the client: SetPayload is called unless
\* the method is GET or OPTIONS, with nil for an empty data.
requestPayload(method, data, old) ==
    IF method # "GET" /\ method # "OPTIONS"
    THEN IF isEmptyPayload(data) THEN "nil" ELSE data
    ELSE old

\* A request that sets the parameters of the caller and then those of the
\* path.
requestParamsMerged(method, parsed, ps, old) ==
    IF method # "OPTIONS"
    THEN LET first == setQueryParams(old, ps)
             second == setQueryParams(first.params, parsed)
         IN [panic |-> first.panic \/ second.panic, params |-> second.params]
    ELSE [panic |-> FALSE, params |-> old]

\* The query parameters request leaves on the client: SetQueryParams is
\* called unless the method is OPTIONS, with the parameters of the path
\* when it has some and with params otherwise.
requestParams(method, parsed, ps, old) ==
    IF method # "OPTIONS"
    THEN IF isEmptyMap(parsed) THEN setQueryParams(old, ps) ELSE setQueryParams(old, parsed)
    ELSE [panic |-> FALSE, params |-> old]

\* request once the path is parsed: the setters are called on a client of
\* Default().
requestParsed(method, refused, parseUrl, ps, data, hs) ==
    LET r == Default
        m == setMethod(r.Meta, method)
        s == setURL(r.urls, r.Config, parseUrl.scheme, parseUrl.host,
                    parseUrl.baseURI, parseUrl.endpoint)
        q == requestParams(method, parseUrl.params, ps, r.params)
        h == IF Len(hs) > 0
             THEN setHeaders(r.headers, hs[1])
             ELSE [panic |-> FALSE, headers |-> r.headers]
    IN [panic |-> refused \/ m.panic \/ s.panic \/ q.panic \/ h.panic,
        Meta |-> m.Meta,
        urls |-> s.urls,
        params |-> q.params,
        payload |-> requestPayload(method, data, r.payload),
        headers |-> h.headers]

\* request(method, path, params, data, headers...) up to r.Send(): the
\* method is validated as given and the path is parsed, then the client is
\* configured; a panic ends the call.
request(method, path, ps, data, hs) ==
    CHOOSE got \in
        {requestParsed(method, ~containsMethod(method) \/ urlParseFails(path),
                       parseUrl, ps, data, hs) :
            parseUrl \in {urlSegments(path)}} : TRUE

\* Paths, query parameters, data and headers passed to the shorthand layer;
\* a path has no query string, one with a parameter, or an empty one.
ShortPaths == {"/api/get", "/search?q=cat", "/search?"}

ShortParams == {EmptyMap, "a" :> StrV("1")}

ShortData == {"nil", "H{name:x}"}

ShortHeaders == {<< >>, <<"X-Key" :> StrV("k")>>}

\* GET(path, params, headers...)
GET == {<<"GET", path, ps, Placeholder, hs>> :
           path \in ShortPaths, ps \in ShortParams, hs \in ShortHeaders}

\* OPTIONS(path, headers...)
OPTIONS == {<<"OPTIONS", path, EmptyMap, Placeholder, hs>> :
               path \in ShortPaths, hs \in ShortHeaders}

\* Request(path, params, data)(method)
Request == {<<method, path, ps, data, << >>>> :
               method \in {"GET", "OPTIONS", "POST", "options"},
               path \in ShortPaths, ps \in ShortParams, data \in ShortData}

\* The client is as its constructor returned it.
Untouched(c) ==
    /\ Config = c.Config /\ Meta = c.Meta /\ urls = c.urls /\ payload = c.payload
    /\ headers = c.headers /\ params = c.params
    /\ beforeRequest = c.beforeRequest /\ afterResponse = c.afterResponse
    /\ calls = << >>

\* A call of the shorthand layer: request builds its own client with
\* Default(), configures it and calls Send on it.
Shorthand ==
    /\ pc = "build"
    /\ Untouched(Default)
    /\ \E a \in GET \cup OPTIONS \cup Request :
       \E got \in {request(a[1], a[2], a[3], a[4], a[5])} :
          /\ calls' = Append(calls, [op |-> "request", args |-> a, panic |-> got.panic])
          /\ IF got.panic
             THEN /\ pc' = "fatal"
                  /\ UNCHANGED <<idx, Meta, urls, params, payload, headers>>
             ELSE /\ pc' = "pre"
                  /\ idx' = 1
                  /\ Meta' = got.Meta
                  /\ urls' = got.urls
                  /\ params' = got.params
                  /\ payload' = got.payload
                  /\ headers' = got.headers
    /\ UNCHANGED <<exit, Config, beforeRequest, afterResponse, Exception, Result,
                   Context, resp, log, excSets, unwrap, prev, cb>>
    /\ UNCHANGED <<seg, authorization>>

---------------------------------------------------------------------------
\* Then and Catch.

\* Then(cb): with neither a PanicError nor a FailureReason, Result.Code is
\* read (c.Result may be nil), a line is logged through ChalkStr, and cb is
\* invoked.
thenOutcome(exc, result, cfg) ==
    IF exc.PanicError = NoErr /\ isEmptyString(exc.FailureReason)
    THEN IF result = NilResult \/ ChalkPanics(cfg) THEN "panicked" ELSE "called"
    ELSE "skipped"

\* Catch(cb): with a non-empty Exception, a line is logged through
\* ChalkPrintf for a PanicError and for a FailureReason, and cb is invoked.
catchOutcome(exc, cfg) ==
    IF ~isEmptyException(exc)
    THEN IF (exc.PanicError # NoErr \/ ~isEmptyString(exc.FailureReason))
            /\ ChalkPanics(cfg)
         THEN "panicked" ELSE "called"
    ELSE "skipped"

Then ==
    /\ pc = "returned"
    /\ cb.then = ""
    /\ cb' = [cb EXCEPT !.then = thenOutcome(Exception, Result, Config)]
    /\ UNCHANGED <<pc, idx, exit, Config, Meta, urls, payload, beforeRequest,
                   afterResponse, Exception, Result, Context, resp, log, excSets,
                   unwrap, headers, params, calls, prev>>
    /\ UNCHANGED <<seg, authorization>>

Catch ==
    /\ pc = "returned"
    /\ cb.catch = ""
    /\ cb' = [cb EXCEPT !.catch = catchOutcome(Exception, Config)]
    /\ UNCHANGED <<pc, idx, exit, Config, Meta, urls, payload, beforeRequest,
                   afterResponse, Exception, Result, Context, resp, log, excSets,
                   unwrap, headers, params, calls, prev>>
    /\ UNCHANGED <<seg, authorization>>

---------------------------------------------------------------------------

Next ==
    \/ ToggleMode
    \/ WithIsDebug
    \/ WithUseLogger
    \/ SetMethod
    \/ SetURL
    \/ SetPayload
    \/ UsePreHooks
    \/ UsePostHooks
    \/ Send
    \/ SendPreHook
    \/ SendCreateRequest
    \/ SendDo
    \/ SendPostHook
    \/ SendReadBody
    \/ SendDecode
    \/ Shorthand
    \/ Then
    \/ Catch
    \/ SendClassify
    \/ SendDeferredClose
    \/ Unwrap

Spec == Init /\ [][Next]_vars

---------------------------------------------------------------------------
\* The setters, called in any order with the arguments a caller may pass.

\* Arguments of SetMethod: the seven verbs in mixed case, and strings that
\* are no verb.
MethodArgs ==
    {"get", "Post", "PUT", "delete", "pAtCh", "head", "OPTIONS", "trace", "gets", ""}

\* A setter may be called: the client is being built.
CanCall == pc = "build" /\ Len(calls) < MaxCalls

\* The call is recorded, with the request description it found.
Called(op, args, panicked) ==
    /\ calls' = Append(calls, [op |-> op, args |-> args, panic |-> panicked])
    /\ prev' = Described(Meta, urls, params, headers, payload)
    /\ pc' = IF panicked THEN "fatal" ELSE pc

CallSetMethod ==
    /\ CanCall
    /\ \E m \in MethodArgs :
          LET got == setMethod(Meta, m) IN
          /\ Meta' = got.Meta
          /\ Called("SetMethod", <<m>>, got.panic)
    /\ UNCHANGED <<idx, exit, Config, urls, payload, beforeRequest, afterResponse,
                   Exception, Result, Context, resp, log, excSets, unwrap,
                   headers, params, cb>>
    /\ UNCHANGED <<seg, authorization>>

\* Arguments of SetHeaders and SetQueryParams: maps over the keys a and b
\* with values of the supported types, the empty map, and a map with a
\* value of a supported type and one of an unsupported type (nil).
BulkArgs ==
    { EmptyMap,
      "a" :> StrV("1"),
      "a" :> IntV(2),
      "b" :> BoolV(TRUE),
      ("a" :> StrV("1")) @@ ("b" :> StrsV(<<"x", "y">>)),
      ("a" :> FloatV(1, 5)) @@ ("b" :> IntsV(<<1, 2>>)),
      ("a" :> StrV("9")) @@ ("b" :> Nil) }

CallSetHeaders ==
    /\ CanCall
    /\ \E h \in BulkArgs :
          LET got == setHeaders(headers, h) IN
          /\ headers' = got.headers
          /\ Called("SetHeaders", <<h>>, got.panic)
    /\ UNCHANGED <<idx, exit, Config, Meta, urls, payload, beforeRequest, afterResponse,
                   Exception, Result, Context, resp, log, excSets, unwrap,
                   params, cb>>
    /\ UNCHANGED <<seg, authorization>>

CallSetQueryParams ==
    /\ CanCall
    /\ \E h \in BulkArgs :
          LET got == setQueryParams(params, h) IN
          /\ params' = got.params
          /\ Called("SetQueryParams", <<h>>, got.panic)
    /\ UNCHANGED <<idx, exit, Config, Meta, urls, payload, beforeRequest, afterResponse,
                   Exception, Result, Context, resp, log, excSets, unwrap,
                   headers, cb>>
    /\ UNCHANGED <<seg, authorization>>

\* Arguments of SetURL. Schemes: empty, the placeholder, the two supported
\* ones, and unsupported ones. Hosts: empty, the placeholder, host names
\* with and without a port, an IPv4 address with a signed port, and strings
\* that are neither (an underscore, an IPv6 address, a trailing slash).
SchemeArgs == {"", "-", "http", "https", "ftp", "HTTP"}

HostArgs ==
    {"", "-", "example.com", "api.example.com:8443", "1.2.3.4:+80",
     "bad_host", "::1", "example.com/"}

BaseURIArgs == {"", "-", "/api", "/api/", "/v1-"}

EndpointArgs == {"", "/get", "/get/", "/a//"}

\* The calls of SetURL made: each part varies while the others are valid,
\* and one call has every part invalid or with a trailing slash.
URLArgs ==
    {<<s, "", "", "/get">> : s \in SchemeArgs}
    \cup {<<"-", h, "/api", "/get">> : h \in HostArgs}
    \cup {<<"https", "example.com", b, "/get/">> : b \in BaseURIArgs}
    \cup {<<"https", "example.com", "/api/", e>> : e \in EndpointArgs}
    \cup {<<"ftp", "bad_host", "/api/", "/get/">>}

CallSetURL ==
    /\ CanCall
    /\ \E a \in URLArgs :
          LET got == setURL(urls, Config, a[1], a[2], a[3], a[4]) IN
          /\ urls' = got.urls
          /\ Called("SetURL", a, got.panic)
    /\ UNCHANGED <<idx, exit, Config, Meta, payload, beforeRequest, afterResponse,
                   Exception, Result, Context, resp, log, excSets, unwrap,
                   headers, params, cb>>
    /\ UNCHANGED <<seg, authorization>>

\* FilterUrlSlash()
CallFilterUrlSlash ==
    /\ CanCall
    /\ Config' = [Config EXCEPT !.FilterSlash = TRUE]
    /\ Called("FilterUrlSlash", << >>, FALSE)
    /\ UNCHANGED <<idx, exit, Meta, urls, payload, beforeRequest, afterResponse,
                   Exception, Result, Context, resp, log, excSets, unwrap,
                   headers, params, cb>>
    /\ UNCHANGED <<seg, authorization>>

\* Arguments of SetRequest: the two calls of its documentation, a call
\* without route values, calls with three and with four values, a full URL,
\* paths with a query, a placeholder that occurs twice, a path without a
\* placeholder, and calls whose method, path or scheme is refused.
RequestArgs ==
    { <<"GET", "/users/:id", <<"123">>>>,
      <<"POST", "/users/:id/:sid", <<"123", "456">>>>,
      <<"GET", "/users/:id", << >>>>,
      <<"GET", "/users/:id/:sid", <<"1", "2", "3">>>>,
      <<"GET", "/users/:id/:sid", <<"1", "2", "3", "4">>>>,
      <<"DELETE", "https://api.example.com/v1/favourites/:id", <<"42">>>>,
      <<"get", "/search?q=cat&q=dog&n=1", << >>>>,
      <<"OPTIONS", "/search?q=cat", << >>>>,
      <<"GET", "/:id/:id", <<"7">>>>,
      <<"GET", "/users", <<"9">>>>,
      <<"TRACE", "/users/:id", <<"1">>>>,
      <<"GET", ":id", << >>>>,
      <<"GET", "ftp://example.com/a/b", << >>>> }

CallSetRequest ==
    /\ CanCall
    /\ \E a \in RequestArgs :
          \E got \in {setRequest(Meta, urls, params, Config, a[1], a[2], a[3])} :
          /\ Meta' = got.Meta
          /\ urls' = got.urls
          /\ params' = got.params
          /\ Called("SetRequest", a, got.panic)
    /\ UNCHANGED <<idx, exit, Config, payload, beforeRequest, afterResponse,
                   Exception, Result, Context, resp, log, excSets, unwrap,
                   headers, cb>>
    /\ UNCHANGED <<seg, authorization>>

NextBuild ==
    \/ CallSetRequest
    \/ CallSetURL
    \/ CallFilterUrlSlash
    \/ CallSetHeaders
    \/ CallSetQueryParams
    \/ CallSetMethod

\* The client the setters are called on is the one New[T]() returns: the
\* setters read no option but Config.FilterSlash, which every constructor
\* leaves unset.
InitBuild == Init /\ Config = New.Config

SpecBuild == InitBuild /\ [][NextBuild]_vars

---------------------------------------------------------------------------
\* The URL of the request: the parts stored by SetURL are assembled by
\* createRequest, and urlSegments takes a URL apart.

\* Parts passed to SetURL: both schemes, a host name and an address with a
\* port, and base paths and endpoints of no, one and two segments.
PartArgs ==
    {<<scheme, host, baseUri, endpoint>> :
        scheme \in {"http", "https"},
        host \in {"example.com", "127.0.0.1:8080"},
        baseUri \in {"", "/", "/api", "/api/v1"},
        endpoint \in {"/get", "/users/42"}}

\* Query parameters stored on the client.
QueryArgs == {EmptyMap, "a" :> "1", ("a" :> "1") @@ ("q" :> "cat")}

\* What c.Meta.Url holds before Send: nothing, or a URL assigned to it.
PresetURL == "https://preset.example.com/direct"

\* Paths passed to urlSegments: one, two and four segments, a trailing
\* slash, the root, an empty segment, and a path followed by a query.
PathArgs ==
    {"/users", "/users/42", "/api/v1/users/42", "/a/", "/", "/a//b", "/search/cats?q=1"}

\* A client of New[T]() on which SetMethod("GET"), SetURL with the parts and
\* SetQueryParams were called, and whose Meta.Url was assigned or not.
InitURL ==
    \E a \in PartArgs, ps \in QueryArgs, url \in {"", PresetURL} :
    \E u \in {setURL(New.urls, New.Config, a[1], a[2], a[3], a[4]).urls} :
        /\ pc = "build"
        /\ idx = 0
        /\ exit = ""
        /\ Config = New.Config
        /\ Meta = [Method |-> "GET", Url |-> url]
        /\ urls = u
        /\ payload = New.payload
        /\ beforeRequest = New.beforeRequest
        /\ afterResponse = New.afterResponse
        /\ Exception = New.Exception
        /\ Result = New.Result
        /\ Context = New.Context
        /\ resp = NoResp
        /\ log = << >>
        /\ excSets = 0
        /\ unwrap = [called |-> FALSE, raised |-> FALSE, out |-> ""]
        /\ headers = New.headers
        /\ params = ps
        /\ calls = << >>
        /\ prev = Described([Method |-> "GET", Url |-> url], u, ps, New.headers, New.payload)
        /\ cb = [then |-> "", catch |-> ""]
        /\ seg = NoSeg
        /\ authorization = New.authorization

\* urlSegments(path) is called on a path.
CallUrlSegments ==
    /\ pc = "build"
    /\ seg = NoSeg
    /\ \E path \in PathArgs : seg' = [in |-> path, out |-> urlSegments(path)]
    /\ UNCHANGED authorization
    /\ UNCHANGED <<pc, idx, exit, Config, Meta, urls, payload, beforeRequest,
                   afterResponse, Exception, Result, Context, resp, log, excSets,
                   unwrap, headers, params, calls, prev, cb>>

\* urlSegments is called on the URL that createRequest assembled.
ParseBack ==
    /\ pc = "do"
    /\ seg = NoSeg
    /\ ~urlParseFails(Meta.Url)
    /\ seg' = [in |-> Meta.Url, out |-> urlSegments(Meta.Url)]
    /\ UNCHANGED authorization
    /\ UNCHANGED <<pc, idx, exit, Config, Meta, urls, payload, beforeRequest,
                   afterResponse, Exception, Result, Context, resp, log, excSets,
                   unwrap, headers, params, calls, prev, cb>>

NextURL ==
    \/ Send
    \/ SendCreateRequest
    \/ CallUrlSegments
    \/ ParseBack

SpecURL == InitURL /\ [][NextURL]_vars

---------------------------------------------------------------------------
\* The wire request: setters of headers, authorization and cookies, pre-hooks
\* that change the client, and createRequest.

\* Keys of SetHeader: the names Authorization and Accept as createRequest
\* spells them and in lower case, and a name of the caller.
HeaderKeyArgs == {"Authorization", "authorization", "Accept", "accept", "X-Trace"}

\* The value SetHeader is called with.
ExtraValue == "extra"

\* Arguments of SetAccept, SetContentType, SetLanguage and SetUserAgent.
ScalarArgs ==
    {<<"SetAccept", "text/plain">>, <<"SetContentType", "text/csv">>,
     <<"SetLanguage", "de">>, <<"SetUserAgent", "agent/1">>}

\* Arguments of SetBasicAuth and of SetBearerAuth.
BasicArgs == {<<"user", "pass">>, <<"admin", "secret">>}

BearerArgs == {"t0k3n"}

\* Arguments of SetCookie.
CookieArgs == {[Name |-> "sid", Value |-> "1"], [Name |-> "lang", Value |-> "en"]}

\* The hooks UsePreHooks has registered: at most two, each leaving the
\* client as it is or setting a header, a query parameter or the payload.
HookKinds == {"user", "setsHeader", "setsParam", "setsPayload"}

HookLists ==
    UNION {{[i \in 1..n |-> [id |-> i, kind |-> ks[i]]] : ks \in [1..n -> HookKinds]} :
           n \in 0..2}

\* A client of New[T]() with method and URL set and pre-hooks registered.
InitWire ==
    \E hooks \in HookLists :
    \E u \in {setURL(New.urls, New.Config, "http", "example.com", "/api", "/get").urls} :
        /\ pc = "build"
        /\ idx = 0
        /\ exit = ""
        /\ Config = New.Config
        /\ Meta = [Method |-> "POST", Url |-> ""]
        /\ urls = u
        /\ payload = New.payload
        /\ beforeRequest = hooks
        /\ afterResponse = New.afterResponse
        /\ Exception = New.Exception
        /\ Result = New.Result
        /\ Context = New.Context
        /\ resp = NoResp
        /\ log = << >>
        /\ excSets = 0
        /\ unwrap = [called |-> FALSE, raised |-> FALSE, out |-> ""]
        /\ headers = New.headers
        /\ params = New.params
        /\ calls = << >>
        /\ prev = Described([Method |-> "POST", Url |-> ""], u, New.params, New.headers,
                            New.payload)
        /\ cb = [then |-> "", catch |-> ""]
        /\ seg = NoSeg
        /\ authorization = New.authorization

CallSetHeader ==
    /\ CanCall
    /\ \E key \in HeaderKeyArgs :
          /\ headers' = setHeader(headers, key, ExtraValue)
          /\ Called("SetHeader", <<key, ExtraValue>>, FALSE)
    /\ UNCHANGED <<idx, exit, Config, Meta, urls, payload, beforeRequest, afterResponse,
                   Exception, Result, Context, resp, log, excSets, unwrap,
                   params, cb, seg, authorization>>

\* SetAccept, SetContentType, SetLanguage, SetUserAgent: the field of
\* c.headers is assigned.
setScalar(hs, op, value) ==
    CASE op = "SetAccept" -> [hs EXCEPT !.accept = value]
      [] op = "SetContentType" -> [hs EXCEPT !.contentType = value]
      [] op = "SetLanguage" -> [hs EXCEPT !.language = value]
      [] op = "SetUserAgent" -> [hs EXCEPT !.userAgent = value]

CallSetScalar ==
    /\ CanCall
    /\ \E a \in ScalarArgs :
          /\ headers' = setScalar(headers, a[1], a[2])
          /\ Called(a[1], <<a[2]>>, FALSE)
    /\ UNCHANGED <<idx, exit, Config, Meta, urls, payload, beforeRequest, afterResponse,
                   Exception, Result, Context, resp, log, excSets, unwrap,
                   params, cb, seg, authorization>>

\* SetBasicAuth(username, password): c.authorization is a new value of the
\* basic variant, its token empty.
setBasicAuth(username, password) ==
    [authType |-> AuthTypeBasic, basicUsername |-> username, basicPassword |-> password,
     bearerToken |-> ""]

\* SetBearerAuth(token): c.authorization is a new value of the bearer
\* variant, its user name and password empty.
setBearerAuth(token) ==
    [authType |-> AuthTypeBearer, basicUsername |-> "", basicPassword |-> "",
     bearerToken |-> token]

CallSetBasicAuth ==
    /\ CanCall
    /\ \E a \in BasicArgs :
          /\ authorization' = setBasicAuth(a[1], a[2])
          /\ Called("SetBasicAuth", a, FALSE)
    /\ UNCHANGED <<idx, exit, Config, Meta, urls, payload, beforeRequest, afterResponse,
                   Exception, Result, Context, resp, log, excSets, unwrap,
                   headers, params, cb, seg>>

CallSetBearerAuth ==
    /\ CanCall
    /\ \E token \in BearerArgs :
          /\ authorization' = setBearerAuth(token)
          /\ Called("SetBearerAuth", <<token>>, FALSE)
    /\ UNCHANGED <<idx, exit, Config, Meta, urls, payload, beforeRequest, afterResponse,
                   Exception, Result, Context, resp, log, excSets, unwrap,
                   headers, params, cb, seg>>

\* SetCookie(cookie): the cookie is appended to c.headers.cookies.
CallSetCookie ==
    /\ CanCall
    /\ \E cookie \in CookieArgs :
          /\ headers' = [headers EXCEPT !.cookies = Append(@, cookie)]
          /\ Called("SetCookie", <<cookie.Name, cookie.Value>>, FALSE)
    /\ UNCHANGED <<idx, exit, Config, Meta, urls, payload, beforeRequest, afterResponse,
                   Exception, Result, Context, resp, log, excSets, unwrap,
                   params, cb, seg, authorization>>

NextWire ==
    \/ CallSetHeader
    \/ CallSetScalar
    \/ CallSetBasicAuth
    \/ CallSetBearerAuth
    \/ CallSetCookie
    \/ Send
    \/ SendPreHook
    \/ SendCreateRequest

SpecWire == InitWire /\ [][NextWire]_vars

---------------------------------------------------------------------------
\* Properties of Send and Unwrap.

\* The positions of the history at which `ev` ran, and those at which it
\* gave an error.
Ran(ev) == {i \in 1..Len(log) : log[i].ev = ev}

Failed(ev) == {i \in Ran(ev) : log[i].err # NoErr}

\* The hooks of one list that ran, in the order they ran.
HooksRun(ev) == SelectSeq(log, LAMBDA s : s.ev = ev)

\* The two classes of a recorded failure.
TransportClass(e) == e.PanicError # NoErr /\ e.FailureReason = ""

BusinessClass(e) == e.FailureReason # "" /\ e.PanicError = NoErr

\* C1: a pre-hook that returns an error ends Send at once: Send has
\* returned, the Exception carries that hook's error as PanicError with an
\* empty FailureReason and with its code location and timestamp set, the
\* failing hook is the last thing that ran (no later pre-hook), the wire
\* request and the HTTP client were not built, and the transport was not
\* invoked.
C1_PreHookFailureAborts ==
    \A i \in Failed("pre") :
        /\ pc = "returned"
        /\ i = Len(log)
        /\ Exception.PanicError = log[i].err
        /\ Exception.FailureReason = ""
        /\ Exception.CodeLocation # ""
        /\ Exception.OccurrenceTime # 0
        /\ Context.Request = ZeroRequest
        /\ Context.HttpClient = ZeroHttpClient
        /\ Ran("create") = {}
        /\ Ran("transport") = {}

\* C1, reached: the first of two registered pre-hooks failed and Send
\* returned with nothing else run.
C1_Witness ==
    /\ pc = "returned"
    /\ Len(beforeRequest) = 2
    /\ Len(log) = 1
    /\ Failed("pre") = {1}
    /\ log[1].id = 1
    /\ Exception.PanicError = HookErr("pre", beforeRequest[1])

\* C2: within one Send the k-th pre-hook to run is the k-th registered one
\* and the k-th post-hook to run is the k-th registered one (so no hook runs
\* twice); every pre-hook has run before the transport is invoked, and none
\* runs after it; the transport is invoked at most once; post-hooks run only
\* after the transport, and all of them before the body is read or decoded.
C2_HookOrder ==
    LET pre == HooksRun("pre")
        post == HooksRun("post")
    IN /\ Len(pre) <= Len(beforeRequest)
       /\ Len(post) <= Len(afterResponse)
       /\ \A k \in 1..Len(pre) : pre[k].id = k
       /\ \A k \in 1..Len(post) : post[k].id = k
       /\ Cardinality(Ran("transport")) <= 1
       /\ \A i \in Ran("pre") : \A j \in Ran("transport") : i < j
       /\ Ran("transport") # {} => Len(pre) = Len(beforeRequest)
       /\ \A i \in Ran("post") : \E j \in Ran("transport") : j < i
       /\ \A i \in Ran("post") : \A j \in Ran("read") \cup Ran("decode") : i < j
       /\ Ran("read") # {} => Len(post) = Len(afterResponse)
       /\ \A i \in Ran("decode") : \E j \in Ran("read") : j < i

\* C2, reached: a Send with two pre-hooks and two post-hooks went through
\* the transport and the decode, and returned.
C2_Witness ==
    /\ pc = "returned"
    /\ Len(HooksRun("pre")) = 2
    /\ Len(HooksRun("post")) = 2
    /\ Ran("transport") # {}
    /\ Ran("decode") # {}

\* C3: once Send has returned, the Exception is the empty record, or
\* transport-class (PanicError set, FailureReason empty), or business-class
\* (FailureReason non-empty, PanicError nil): never both fields set, and a
\* non-empty record always has one of them set.
C3_ExceptionOneOfThree ==
    pc = "returned" =>
        /\ ~(Exception.PanicError # NoErr /\ Exception.FailureReason # "")
        /\ \/ isEmptyException(Exception)
           \/ TransportClass(Exception)
           \/ BusinessClass(Exception)

\* C4: a round trip that fails makes Send return normally, with a
\* transport-class Exception whose PanicError is the error of the round
\* trip, and with no post-hook run and no body read or decoded; with a
\* logger attached as without.
C4_TransportFailureReturns ==
    \A i \in Failed("transport") :
        /\ pc = "returned"
        /\ TransportClass(Exception)
        /\ Exception.PanicError = log[i].err
        /\ Ran("post") = {}
        /\ Ran("read") = {}
        /\ Ran("decode") = {}

\* C5: when the payload does not serialize, Send ends with a
\* transport-class Exception that carries the serialization error, the
\* transport was not invoked and no later phase ran.
C5_MarshalFailureAborts ==
    (pc = "returned" /\ \E i \in Failed("create") : log[i].err = MarshalErr(payload)) =>
        /\ TransportClass(Exception)
        /\ Exception.PanicError = MarshalErr(payload)
        /\ Ran("transport") = {}
        /\ Ran("post") = {}
        /\ Ran("read") = {}
        /\ Ran("decode") = {}

\* C6: within one Send the Exception is assigned at most once: no step,
\* the deferred close of the body included, replaces an Exception that an
\* earlier phase recorded.
C6_ExceptionAssignedOnce == excSets <= 1

\* Send has ended: it returned or it panicked.
SendEnded == pc \in {"returned", "panicked"}

\* The value of type T a body decodes to: in REST mode the data member of
\* the envelope, in raw mode the whole body.
DecodedData(isRestMode, bs) ==
    LET doc == JSONParse(bs) IN
    IF ~isRestMode
    THEN UnmarshalT(doc, ZeroData)
    ELSE IF doc.kind = "object" /\ "data" \in DOMAIN doc.val
    THEN UnmarshalT(doc.val.data, ZeroData)
    ELSE ZeroData

\* C7: when the status is not 200 and the body decoded without error, Send
\* returns with the decoded value kept in Result.Data and with the Exception
\* recorded by the business classification: FailureReason equal to
\* Result.Msg and PanicError nil.
C7_BusinessFailureKeepsData ==
    (SendEnded /\ resp # NoResp /\ resp.StatusCode # StatusOK
       /\ Ran("decode") # {} /\ Failed("decode") = {}) =>
        /\ pc = "returned"
        /\ Result # NilResult
        /\ Result.Data = DecodedData(Config.IsRestMode, resp.Body)
        /\ ~isEmptyException(Exception)
        /\ Exception.FailureReason = Result.Msg
        /\ Exception.PanicError = NoErr

\* C8: Unwrap raises when Send ended with a transport-class failure; it
\* returns a non-empty diagnostic, without raising, whenever Send ended with
\* a business failure (a status other than 200 after a decode without
\* error), in either mode and for any msg; it returns the empty string only
\* when Send ended with no failure.
C8_UnwrapOutcome ==
    unwrap.called =>
        /\ TransportClass(Exception) => unwrap.raised
        /\ (Ran("classify") # {} /\ resp.StatusCode # StatusOK) =>
              (~unwrap.raised /\ unwrap.out # "")
        /\ (~unwrap.raised /\ unwrap.out = "") => isEmptyException(Exception)

\* C9: whenever the body Send read has zero bytes, Send ends by returning
\* with a PanicError recorded, whatever the status, the mode and the
\* declared length of the response (0, unknown, or that of a HEAD response).
C9_EmptyBodyIsTransportFailure ==
    (SendEnded /\ Ran("read") # {} /\ resp.Body = "") =>
        /\ pc = "returned"
        /\ TransportClass(Exception)

\* C9, reached: a body of zero bytes with an unknown declared length and
\* status 200 went past the length check and was refused by the decoder.
C9_Witness ==
    /\ pc = "returned"
    /\ resp # NoResp
    /\ resp.Body = ""
    /\ resp.ContentLength = -1
    /\ resp.StatusCode = StatusOK
    /\ Failed("decode") # {}
    /\ Exception.PanicError = UnmarshalErr("")

\* C10: in raw mode a Send that returned without an Exception after
\* decoding has the whole body decoded into Result.Data, and Result.Code
\* and Result.Msg at 0 and "", whatever the body holds.
C10_RawModeDataOnly ==
    (pc = "returned" /\ ~Config.IsRestMode /\ isEmptyException(Exception)
       /\ Ran("decode") # {}) =>
        Result = [Code |-> 0, Msg |-> "", Data |-> DecodedData(FALSE, resp.Body)]

\* C10, reached: in raw mode a body with code and msg members of its own
\* was decoded, and only Result.Data took its values.
C10_Witness ==
    /\ pc = "returned"
    /\ ~Config.IsRestMode
    /\ isEmptyException(Exception)
    /\ resp # NoResp
    /\ resp.Body = "{\"code\":7,\"msg\":\"m\",\"id\":1}"
    /\ Result = [Code |-> 0, Msg |-> "", Data |-> [id |-> 1, msg |-> "m"]]

\* The envelope a body decodes to from the zero envelope: code, msg and
\* data of a JSON object.
EnvelopeOf(bs) ==
    LET doc == JSONParse(bs) IN
    IF doc.kind # "object"
    THEN ZeroResult
    ELSE [Code |-> IF "code" \in DOMAIN doc.val THEN doc.val.code ELSE 0,
          Msg |-> IF "msg" \in DOMAIN doc.val THEN doc.val.msg ELSE "",
          Data |-> DecodedData(TRUE, bs)]

\* C11: in REST mode, once Send has ended on a response with status 200 and
\* a non-empty body that decodes, Send has returned, the Exception is empty
\* and Result holds the code, msg and data of the envelope, whatever the
\* code is.
C11_RestEnvelopeFilled ==
    (SendEnded /\ Config.IsRestMode /\ Ran("read") # {} /\ Failed("read") = {}
       /\ resp.StatusCode = StatusOK /\ resp.Body # ""
       /\ UnmarshalErr(resp.Body) = NoErr) =>
        /\ pc = "returned"
        /\ isEmptyException(Exception)
        /\ Result # NilResult
        /\ Result = EnvelopeOf(resp.Body)

---------------------------------------------------------------------------
\* Properties of the setters.

\* The last setter call made.
LastCall == calls[Len(calls)]

\* The last call made was `op`.
Last(op) == Len(calls) > 0 /\ LastCall.op = op

\* C12: SetMethod(m) fails fatally exactly when m in upper case is none of
\* GET, POST, PUT, DELETE, PATCH, HEAD, OPTIONS; when it is accepted,
\* Meta.Method is m in upper case; when it fails, Meta.Method is what it
\* was before the call.
C12_SetMethodAcceptsVerbs ==
    Last("SetMethod") =>
        LET m == LastCall.args[1]
            accepted == ToUpper(m) \in
                {"GET", "POST", "PUT", "DELETE", "PATCH", "HEAD", "OPTIONS"}
        IN /\ LastCall.panic <=> ~accepted
           /\ accepted => (pc = "build" /\ Meta.Method = ToUpper(m))
           /\ ~accepted => (pc = "fatal" /\ Meta.Method = prev.Meta.Method)

\* C12, reached: SetMethod("get") was accepted and stored GET, then
\* SetMethod("trace") failed and GET stayed.
C12_Witness ==
    /\ Len(calls) = 2
    /\ calls[1].op = "SetMethod" /\ calls[1].args = <<"get">> /\ ~calls[1].panic
    /\ calls[2].op = "SetMethod" /\ calls[2].args = <<"trace">> /\ calls[2].panic
    /\ prev.Meta.Method = "GET"
    /\ Meta.Method = "GET"
    /\ pc = "fatal"

\* The maps passed by the calls of `op` that returned, in the order of the
\* calls, each as the strings its values stand for.
Passed(op) ==
    LET made == SelectSeq(calls, LAMBDA c : c.op = op /\ ~c.panic)
    IN [i \in 1..Len(made) |-> convertToSMap(made[i].args[1]).out]

\* The key-wise union of a sequence of maps, the latest value of a key
\* winning.
UnionLatest(maps) ==
    LET has(k) == {i \in 1..Len(maps) : k \in DOMAIN maps[i]}
        latest(k) == CHOOSE i \in has(k) : \A j \in has(k) : j <= i
    IN [k \in UNION {DOMAIN maps[i] : i \in 1..Len(maps)} |-> maps[latest(k)][k]]

\* No call but those of `ops` was made.
OnlyCalls(ops) == \A i \in 1..Len(calls) : calls[i].op \in ops

C16_SetURLSchemeAndHost ==
    Last("SetURL") =>
        LET scheme == LastCall.args[1]
            host == LastCall.args[2]
            schemeOK == scheme \in {"", "-", "http", "https"}
            hostOK == host \in {"", "-"} \/ isValidHost(host) \/ isValidIPAddrPort(host)
        IN /\ LastCall.panic <=> ~(schemeOK /\ hostOK)
           /\ ~schemeOK => urls = prev.urls
           /\ schemeOK =>
                 urls.scheme = (IF scheme \in {"", "-"} THEN "http" ELSE scheme)
           /\ (schemeOK /\ hostOK) =>
                 urls.host = (IF host \in {"", "-"} THEN "127.0.0.1:8080" ELSE host)
           /\ (schemeOK /\ ~hostOK) =>
                 /\ urls.host = prev.urls.host
                 /\ urls.baseURI = prev.urls.baseURI
                 /\ urls.endpoint = prev.urls.endpoint

\* C16, reached: after SetURL("https", "example.com", ...), the call
\* SetURL("-", "bad_host", "/api", "/get") stored the scheme "http", failed
\* on the host and left host, base path and endpoint as they were.
C16_Witness ==
    /\ Len(calls) = 2
    /\ calls[1].op = "SetURL" /\ calls[1].args = <<"https", "example.com", "/api/", "/get">>
    /\ calls[2].op = "SetURL" /\ calls[2].args = <<"-", "bad_host", "/api", "/get">>
    /\ calls[2].panic
    /\ urls = [scheme |-> "http", host |-> "example.com",
               baseURI |-> "/api/", endpoint |-> "/get"]

\* C17: with Config.FilterSlash set when SetURL is called, the stored base
\* path and the stored endpoint are the arguments without their trailing
\* "/" characters; with the flag not set they are the arguments as given.
C17_FilterSlashTrims ==
    (Last("SetURL") /\ ~LastCall.panic) =>
        LET baseUri == LastCall.args[3]
            endpoint == LastCall.args[4]
        IN IF Config.FilterSlash
           THEN /\ urls.baseURI = TrimRight(baseUri, "/")
                /\ urls.endpoint = TrimRight(endpoint, "/")
           ELSE /\ urls.baseURI = baseUri
                /\ urls.endpoint = endpoint

\* The path of the request URL that parseFullURLPath assembles from the
\* stored base path and endpoint.
RequestPath(u) == (IF u.baseURI = RootURL THEN "" ELSE u.baseURI) \o u.endpoint

\* The last call was SetRequest with n route values and returned.
SetRequestReturned(n) ==
    Last("SetRequest") /\ ~LastCall.panic /\ Len(LastCall.args[3]) = n

C15_TooManyRouteValues ==
    Last("SetRequest") =>
        LET path == LastCall.args[2]
            vals == LastCall.args[3]
            first == IF Len(vals) >= 1 THEN Replace(path, ":id", vals[1]) ELSE path
            both == IF Len(vals) = 2 THEN Replace(first, ":sid", vals[2]) ELSE first
        IN /\ Len(vals) > 2 =>
                 /\ LastCall.panic
                 /\ Meta.Method = prev.Meta.Method
                 /\ urls = prev.urls
           /\ (Len(vals) <= 2 /\ ~LastCall.panic) =>
                 RequestPath(urls) = urlParse(both).Path

---------------------------------------------------------------------------
\* Properties of the request sent.

\* The client was built by Default(): its first pre-hook is the default one.
IsDefaultClient ==
    Len(beforeRequest) > 0 /\ beforeRequest[1].kind = "default"

\* The request createRequest built is in the context.
RequestBuilt == pc \notin {"build", "pre", "fatal"} /\ Context.Request.kind = "built"

\* C18: the request that a client of Default() builds, once its pre-hooks
\* have run, carries Accept, Content-Type, Content-Language and the
\* User-Agent of the library when the caller configured no header.
C18_DefaultHeadersOnRequest ==
    (IsDefaultClient /\ RequestBuilt /\ isEmptyMap(headers.extra)) =>
        LET h == Context.Request.Header IN
        /\ {"Accept", "Content-Type", "Content-Language", "User-Agent"} \subseteq DOMAIN h
        /\ h = ("Accept" :> "application/json") @@ ("Content-Type" :> "application/json")
               @@ ("Content-Language" :> "en-US,en;q=0.9")
               @@ ("User-Agent" :> LibraryUserAgent)

---------------------------------------------------------------------------
\* Properties of Then and Catch.

\* C19: on the client Send returned, Then invokes its callback only when
\* the Exception is empty and Catch only when it is not; the two callbacks
\* are never both invoked, and once Then and Catch have both been called
\* exactly one of the callbacks was invoked.
C19_ThenXorCatch ==
    /\ cb.then = "called" => isEmptyException(Exception)
    /\ cb.catch = "called" => ~isEmptyException(Exception)
    /\ ~(cb.then = "called" /\ cb.catch = "called")
    /\ (cb.then # "" /\ cb.catch # "") =>
          ((cb.then = "called") # (cb.catch = "called"))

---------------------------------------------------------------------------
\* Properties of the shorthand layer.

\* The client was configured by request, called with this method.
Requested(method) ==
    Len(calls) = 1 /\ calls[1].op = "request" /\ ~calls[1].panic
    /\ calls[1].args[1] = method

\* C20: a client that request configured with the method GET or OPTIONS has
\* no payload and the request it builds has no body, whatever data was
\* passed; with OPTIONS the client has no query parameters and the URL of
\* the request has no query.
C20_ShorthandNoPayload ==
    /\ (Requested("GET") \/ Requested("OPTIONS")) =>
          /\ isEmptyPayload(payload)
          /\ RequestBuilt => ~Context.Request.Body
    /\ Requested("OPTIONS") =>
          /\ isEmptyMap(params)
          /\ RequestBuilt => Index(Context.Request.URL, "?") = 0

\* C20, reached: Request("/search?q=cat", H{"a": "1"}, H{"name": "x"})
\* executed with OPTIONS has sent its request and Send returned.
C20_Witness ==
    /\ Requested("OPTIONS")
    /\ calls[1].args = <<"OPTIONS", "/search?q=cat", "a" :> StrV("1"), "H{name:x}", << >>>>
    /\ pc = "returned"
    /\ RequestBuilt
    /\ Context.Request.URL = "http://127.0.0.1:8080/search"

---------------------------------------------------------------------------
\* Properties of the URL.

\* createRequest has assembled the URL and built the request.
Materialized == pc = "do" /\ Context.Request.kind = "built"

\* The query string of the parameters stored, written out.
QueryOf(ps) ==
    CASE ps = ("a" :> "1") -> "?a=1"
      [] ps = (("a" :> "1") @@ ("q" :> "cat")) -> "?a=1&q=cat"
      [] OTHER -> ""

\* scheme://host+basePath+endpoint, a root base path contributing nothing.
AssembledOf(u) ==
    u.scheme \o "://" \o u.host \o (IF u.baseURI = "/" THEN "" ELSE u.baseURI) \o u.endpoint

\* C21: once the request is materialized, Meta.Url is the URL assembled from
\* the four parts, followed by "?" and the encoded query exactly when there
\* are parameters, if Meta.Url was empty before Send; if Meta.Url was
\* assigned before Send it is kept and the request goes to it.
C21_MaterializedURL ==
    Materialized =>
        IF isEmptyString(prev.Meta.Url)
        THEN Meta.Url = AssembledOf(urls) \o QueryOf(params)
        ELSE /\ Meta.Url = prev.Meta.Url
             /\ Context.Request.URL = prev.Meta.Url

\* The number of "/" in a string.
Slashes(path) == Cardinality({i \in 1..Len(path) : SubSeq(path, i, i) = "/"})

\* A "/"-prefixed path without a trailing slash.
IsRooted(path) ==
    /\ Len(path) >= 2
    /\ SubSeq(path, 1, 1) = "/"
    /\ SubSeq(path, Len(path), Len(path)) # "/"

\* urlSegments was called on the URL assembled from the parts stored, and
\* base path and endpoint are rooted paths.
ParsedBack ==
    /\ Materialized
    /\ seg # NoSeg
    /\ seg.in = Meta.Url
    /\ isEmptyString(prev.Meta.Url)
    /\ IsRooted(urls.baseURI)
    /\ IsRooted(urls.endpoint)

\* The four parts urlSegments gave are the parts stored.
SameParts ==
    /\ seg.out.scheme = urls.scheme
    /\ seg.out.host = urls.host
    /\ seg.out.baseURI = urls.baseURI
    /\ seg.out.endpoint = urls.endpoint

\* C22 as stated: the URL assembled from parts that SetURL accepted, base
\* path and endpoint being rooted paths of one or more segments, is taken
\* apart by urlSegments into the same four parts.
C22_RoundTrip == ParsedBack => SameParts

\* C22, amended: the round trip gives the same four parts when the base
\* path has exactly one segment (the endpoint has one or more).
C22_RoundTripOneSegmentBase ==
    (ParsedBack /\ Slashes(urls.baseURI) = 1) => SameParts

\* C22, reached: https://example.com/api/users/42 with a query was parsed
\* back into https, example.com, /api and /users/42.
C22_Witness ==
    /\ ParsedBack
    /\ seg.in = "https://example.com/api/users/42?a=1&q=cat"
    /\ urls = [scheme |-> "https", host |-> "example.com",
               baseURI |-> "/api", endpoint |-> "/users/42"]
    /\ SameParts

\* The path of an argument of urlSegments: what precedes the query.
PathOf(in) == IF Index(in, "?") = 0 THEN in ELSE SubSeq(in, 1, Index(in, "?") - 1)

\* The place of the second "/" of a path that has two.
SecondSlash(path) ==
    CHOOSE i \in 2..Len(path) :
        /\ SubSeq(path, i, i) = "/"
        /\ \A j \in 2..(i - 1) : SubSeq(path, j, j) # "/"

\* C23: for a path with one segment after the root urlSegments gives the
\* base path "/" and the whole path as the endpoint; for a path with two or
\* more it gives "/" and the first segment as the base path, and "/" and
\* the other segments, joined by "/", as the endpoint.
C23_SplitBySegmentCount ==
    (seg # NoSeg /\ seg.in \in PathArgs) =>
        LET path == PathOf(seg.in) IN
        IF Slashes(path) = 1
        THEN /\ seg.out.baseURI = "/"
             /\ seg.out.endpoint = path
        ELSE /\ seg.out.baseURI = SubSeq(path, 1, SecondSlash(path) - 1)
             /\ seg.out.endpoint = SubSeq(path, SecondSlash(path), Len(path))

\* C23, reached: urlSegments("/api/v1/users/42") gave "/api" and
\* "/v1/users/42", and urlSegments("/users") gave "/" and "/users".
C23_Witness ==
    /\ seg # NoSeg
    /\ \/ /\ seg.in = "/api/v1/users/42"
          /\ seg.out.baseURI = "/api"
          /\ seg.out.endpoint = "/v1/users/42"
       \/ /\ seg.in = "/users"
          /\ seg.out.baseURI = "/"
          /\ seg.out.endpoint = "/users"

---------------------------------------------------------------------------
\* Properties of the post-hooks.

\* A post-hook is about to run: Send is in its loop over c.afterResponse.
PostHookRuns == pc = "post" /\ idx <= Len(afterResponse) /\ resp # NoResp

\* C24: when a post-hook runs, Context.Response holds the response just
\* received and its status code, and Result is as it was before Send.
C24_PostHookSeesResponse ==
    PostHookRuns =>
        /\ Context.Response.R
        /\ Context.Response.Status = resp.StatusCode
        /\ Result = ZeroResult

\* C25: once a post-hook has returned an error, nothing else of Send runs
\* but the deferred close: no later post-hook, no read and no decode; the
\* Exception carries that error as PanicError and no FailureReason, and
\* Result and Context.Response are as they were before Send.
C25_PostHookFailureAborts ==
    \A i \in Failed("post") :
        /\ pc \in {"close", "returned"}
        /\ \A j \in (i + 1)..Len(log) : log[j].ev = "close"
        /\ Exception.PanicError = log[i].err
        /\ Exception.FailureReason = ""
        /\ Exception.CodeLocation # ""
        /\ Exception.OccurrenceTime # 0
        /\ Ran("read") = {}
        /\ Ran("decode") = {}
        /\ Result = ZeroResult
        /\ Context.Response = ZeroResponse

\* C25, reached: the first of two registered post-hooks failed and Send
\* returned without running the second.
C25_Witness ==
    /\ pc = "returned"
    /\ Len(afterResponse) = 2
    /\ Failed("post") # {}
    /\ Len(HooksRun("post")) = 1
    /\ Exception.PanicError = HookErr("post", afterResponse[1])

---------------------------------------------------------------------------
\* Properties of the wire request.

\* The hook is the last registered one of its kind.
LastOfKind(i) ==
    \A j \in (i + 1)..Len(beforeRequest) : beforeRequest[j].kind # beforeRequest[i].kind

\* The values of a key in the query string of the request's URL.
WireQuery(key) == QueryValues(QueryPairs(urlParse(Context.Request.URL).RawQuery), key)

\* C26: what a pre-hook sets on the client it receives is in the request
\* that the same Send builds: the header the last header-setting hook set,
\* the query parameter the last parameter-setting hook set, and a body when
\* a hook set the payload.
C26_PreHookMutationOnWire ==
    Materialized =>
        \A i \in 1..Len(beforeRequest) :
            LET md == beforeRequest[i] IN
            /\ (md.kind = "setsHeader" /\ LastOfKind(i)) =>
                   HeaderGet(Context.Request.Header, SignatureKey) = SignatureOf(md)
            /\ (md.kind = "setsParam" /\ LastOfKind(i)) =>
                   WireQuery(HookParamKey) = <<HookParamOf(md)>>
            /\ md.kind = "setsPayload" => Context.Request.Body

\* The request is built after a hook set a header and a second one set a
\* query parameter, or after two hooks set the payload and a header.
C26_Witness ==
    /\ Materialized
    /\ Len(beforeRequest) = 2
    /\ \/ /\ beforeRequest[1].kind = "setsHeader"
          /\ beforeRequest[2].kind = "setsParam"
          /\ Context.Request.Header = (SignatureKey :> "sig-1")
          /\ Context.Request.URL = "http://example.com/api/get?q=h2"
          /\ ~Context.Request.Body
       \/ /\ beforeRequest[1].kind = "setsPayload"
          /\ beforeRequest[2].kind = "setsHeader"
          /\ Context.Request.Header = (SignatureKey :> "sig-2")
          /\ Context.Request.Body

\* The header lines of the request whose name is `name` in canonical form.
Named(name) == {k \in DOMAIN Context.Request.Header : CanonicalHeaderKey(k) = name}

\* The request carries the header, and no line of that name says otherwise.
Wins(name, value) ==
    /\ Named(name) # {}
    /\ \A k \in Named(name) : Context.Request.Header[k] = value

\* The calls of SetBasicAuth and SetBearerAuth made, in their order.
AuthCalls == SelectSeq(calls, LAMBDA c : c.op \in {"SetBasicAuth", "SetBearerAuth"})

\* The Cookie header of the cookies from the i-th on.
RECURSIVE CookieLine(_, _)
CookieLine(cookies, i) ==
    IF i > Len(cookies)
    THEN ""
    ELSE cookies[i].Name \o "=" \o cookies[i].Value
             \o (IF i < Len(cookies) THEN "; " ELSE "") \o CookieLine(cookies, i + 1)

\* The authorization is that of the last SetBasicAuth or SetBearerAuth call,
\* the fields of the other variant empty.
CurrentAuthVariant ==
    IF AuthCalls = << >>
    THEN authorization = New.authorization
    ELSE LET last == AuthCalls[Len(AuthCalls)] IN
         IF last.op = "SetBasicAuth"
         THEN authorization = [authType |-> "Basic", basicUsername |-> last.args[1],
                               basicPassword |-> last.args[2], bearerToken |-> ""]
         ELSE authorization = [authType |-> "Bearer", basicUsername |-> "",
                               basicPassword |-> "", bearerToken |-> last.args[1]]

\* The Authorization value the authorization stands for.
DerivedAuthorization ==
    IF authorization.authType = "Basic"
    THEN getBasicAuth(authorization.basicUsername, authorization.basicPassword)
    ELSE "Bearer " \o authorization.bearerToken

\* C27: in the request createRequest builds, every extra header is present
\* and nothing else but the scalar headers, Authorization and Cookie; for
\* each of User-Agent, Accept, Content-Type and Content-Language a non-empty
\* scalar is the only value under that canonical name; the authorization is
\* that of the last SetBasicAuth / SetBearerAuth call with the other
\* variant's fields cleared, and the Authorization derived from it is the
\* only value under that canonical name; the cookies are in the Cookie header.
C27_HeaderLayers ==
    Materialized =>
        /\ DOMAIN headers.extra \subseteq DOMAIN Context.Request.Header
        /\ DOMAIN Context.Request.Header \subseteq
               DOMAIN headers.extra \cup {"User-Agent", "Accept", "Content-Type",
                                          "Content-Language", "Authorization", "Cookie"}
        /\ headers.userAgent # "" => Wins("User-Agent", headers.userAgent)
        /\ headers.accept # "" => Wins("Accept", headers.accept)
        /\ headers.contentType # "" => Wins("Content-Type", headers.contentType)
        /\ headers.language # "" => Wins("Content-Language", headers.language)
        /\ CurrentAuthVariant
        /\ authorization.authType # "" => Wins("Authorization", DerivedAuthorization)
        /\ headers.cookies # << >> =>
               HeaderGet(Context.Request.Header, "Cookie") = CookieLine(headers.cookies, 1)

\* The same with "the value under that name as createRequest spells it" for
\* "the only value under that canonical name".
C27_HeaderLayersExactName ==
    Materialized =>
        /\ DOMAIN headers.extra \subseteq DOMAIN Context.Request.Header
        /\ DOMAIN Context.Request.Header \subseteq
               DOMAIN headers.extra \cup {"User-Agent", "Accept", "Content-Type",
                                          "Content-Language", "Authorization", "Cookie"}
        /\ headers.userAgent # "" =>
               HeaderGet(Context.Request.Header, "User-Agent") = headers.userAgent
        /\ headers.accept # "" => HeaderGet(Context.Request.Header, "Accept") = headers.accept
        /\ headers.contentType # "" =>
               HeaderGet(Context.Request.Header, "Content-Type") = headers.contentType
        /\ headers.language # "" =>
               HeaderGet(Context.Request.Header, "Content-Language") = headers.language
        /\ CurrentAuthVariant
        /\ authorization.authType # "" =>
               HeaderGet(Context.Request.Header, "Authorization") = DerivedAuthorization
        /\ headers.cookies # << >> =>
               HeaderGet(Context.Request.Header, "Cookie") = CookieLine(headers.cookies, 1)

---------------------------------------------------------------------------
\* Properties of the bulk setters and of the shorthand methods.

\* C28: SetQueryParams or SetHeaders called with a map in which a value has
\* a type other than string, int, float64, bool, []string and []int fails
\* fatally and leaves the query parameters and the extra headers as they
\* were, the keys of a supported type included; a map of values of those
\* six types is accepted.
C28_UnsupportedValueFailsWhole ==
    (Last("SetHeaders") \/ Last("SetQueryParams")) =>
        LET input == LastCall.args[1]
            unsupported ==
                \E k \in DOMAIN input :
                    input[k].t \notin {"string", "int", "float64", "bool", "[]string", "[]int"}
        IN IF unsupported
           THEN /\ LastCall.panic
                /\ pc = "fatal"
                /\ params = prev.params
                /\ headers.extra = prev.headers.extra
           ELSE ~LastCall.panic /\ pc = "build"

\* C28, reached: SetQueryParams({a: "1"}) and then SetQueryParams({a: "9",
\* b: nil}) failed and left a at "1".
C28_Witness ==
    /\ Len(calls) = 2
    /\ calls[1].op = "SetQueryParams" /\ calls[1].args[1] = "a" :> StrV("1")
    /\ calls[2].op = "SetQueryParams" /\ DOMAIN calls[2].args[1] = {"a", "b"}
    /\ calls[2].args[1]["b"] = Nil
    /\ calls[2].panic
    /\ pc = "fatal"
    /\ params = "a" :> "1"

\* The client was configured by request.
Shorted == Len(calls) = 1 /\ calls[1].op = "request" /\ ~calls[1].panic

\* The parameters in the query string of the path passed to request, and
\* the parameters the caller passed, as strings.
PathParams == convertToSMap(urlSegments(calls[1].args[2]).params).out

CallerParams == convertToSMap(calls[1].args[3]).out

\* C29 as stated: a client that request configured has the parameters of the
\* path's query string when the path has a query string, and the parameters
\* of the caller otherwise.
C29_ShorthandParams ==
    Shorted =>
        params = IF Index(calls[1].args[2], "?") > 0 THEN PathParams ELSE CallerParams

\* C29: a client that request configured with a method other than OPTIONS
\* has exactly the parameters of the path's query string when that holds at
\* least one parameter, and exactly the parameters of the caller otherwise;
\* with OPTIONS it has none.
C29_ShorthandParamsNeverMerged ==
    Shorted =>
        params = IF calls[1].args[1] = "OPTIONS" THEN EmptyMap
                 ELSE IF PathParams # EmptyMap THEN PathParams
                 ELSE CallerParams

\* C29, reached: Request("/search?q=cat", H{"a": "1"}, H{"name": "x"})
\* executed with POST has built its request with q alone, and
\* GET("/search?", H{"a": "1"}) with a alone.
C29_Witness ==
    /\ Shorted
    /\ RequestBuilt
    /\ \/ /\ calls[1].args = <<"POST", "/search?q=cat", "a" :> StrV("1"), "H{name:x}", << >>>>
          /\ params = "q" :> "cat"
          /\ Context.Request.URL = "http://127.0.0.1:8080/search?q=cat"
       \/ /\ calls[1].args = <<"GET", "/search?", "a" :> StrV("1"), Placeholder, << >>>>
          /\ params = "a" :> "1"
          /\ Context.Request.URL = "http://127.0.0.1:8080/search?a=1"

---------------------------------------------------------------------------
\* Properties of logging.

\* The configuration with a logger set.
WithLogger == [Config EXCEPT !.Logger = TRUE]

\* C30: a client without a logger behaves as one with a logger: a Send that
\* decoded the body goes on to the check of the status code, Then and Catch
\* end as they end with a logger, and after a Send that recorded no
\* exception Then invokes its callback.
C30_LoggingNeverChangesOutcome ==
    /\ (SendEnded /\ Ran("decode") # {} /\ Failed("decode") = {}) => Ran("classify") # {}
    /\ cb.then # "" => cb.then = thenOutcome(Exception, Result, WithLogger)
    /\ cb.catch # "" => cb.catch = catchOutcome(Exception, WithLogger)
    /\ (pc = "returned" /\ isEmptyException(Exception) /\ Result # NilResult
        /\ cb.then # "") => cb.then = "called"

\* The same for the clients that have a logger.
C30_WithLoggerOnly == Config.Logger => C30_LoggingNeverChangesOutcome
====
